---- MODULE Spec2Model ----
(***************************************************************************)
(* A model of the Velocity crypto core (cryptoCore/src): the Merkle tree,  *)
(* the batch and aggregated signature verifier and the FFI result          *)
(* envelope with its ownership contract.                                   *)
(*                                                                         *)
(* Byte strings are sequences of symbols.  A data byte b is the symbol     *)
(* [byte |-> b]; a digest is a one-symbol string whose symbol              *)
(* [alg |-> a, pre |-> s] names the algorithm and the hashed string, so    *)
(* the hash is collision free by construction and digests of one           *)
(* algorithm all have the same length.                                     *)
(***************************************************************************)
EXTENDS Integers, Sequences, FiniteSets, TLC

VARIABLES
    \* merkle_tree.rs
    mpc,          \* position of the Merkle scenario
    leaves,       \* the leaf list given to MerkleTree::new / new_parallel
    algorithm,    \* the HashAlgorithm given to them
    tree,         \* result of MerkleTree::new
    plevels,      \* levels built so far by MerkleTree::new_parallel
    ptree,        \* result of MerkleTree::new_parallel
    reqIndex,     \* the leaf index given to the last generate_proof
    proof,        \* result of the last generate_proof
    verified,     \* result of the last verify_proof
    leaves2,      \* the leaf list with one leaf replaced
    tree2,        \* the tree rebuilt from leaves2
    \* signature_verifier.rs
    spc,          \* position of the signature scenario
    enable_polygon_verification,   \* SignatureVerifier field
    batch,        \* the BatchSignatureRequest given to verify_batch
    offset,       \* requests consumed by the chunk loop of the fail-fast path
    results,      \* the result vector of verify_batch (so far)
    aggregated,   \* the AggregatedSignature given to verify_aggregated_signature
    aggAlgorithm, \* the algorithm given to it
    aggResult,    \* the AggregatedVerificationResult
    \* ffi.rs
    heap,         \* the allocations made for results: id -> [kind, size, state, releases]
    envelopes,    \* every VelocityCryptoResult returned so far: id -> its fields
    outstanding,  \* the results the caller holds and has not yet freed
    released,     \* the results the caller has passed to velocity_crypto_free_result
    calls,        \* entry-point calls made
    \* merkle_tree.rs, IncrementalMerkleTree
    icapacity,    \* IncrementalMerkleTree.capacity
    ialgorithm,   \* IncrementalMerkleTree.algorithm
    ileaves,      \* IncrementalMerkleTree.leaves
    itree,        \* IncrementalMerkleTree.tree (NoValue for None)
    ilast,        \* the last call made on it: operation, arguments, leaf count before, result
    iops,         \* calls made on it
    \* monte_carlo.rs
    cpc,          \* position of the Monte Carlo scenario
    config,       \* MonteCarloEngine.config
    scenario,     \* the ComplianceScenario simulated
    entropy,      \* the seed the entropy source (thread_rng, from_entropy) yields per run
    runs,         \* what each simulate_compliance_risk call so far produced
    \* trust_calculator.rs
    tpc,          \* position of the trust scenario
    tconfig,      \* TrustCalculator.config
    overflow_checks,  \* whether the build checks integer overflow (debug) or wraps (release)
    now,          \* the clock reading, in days since the epoch
    activities,   \* the activity list given to calculate_trust_score
    tresult,      \* what calculate_trust_score(activities) produced
    activities2,  \* the list with one activity improved, or the new activities of an update
    current,      \* the TrustScore given to update_trust_score
    tresult2,     \* what the second call produced
    \* merkle_tree.rs, proofs built by the caller
    vpc,          \* position of the proof scenario
    vtree,        \* the tree the proofs are verified against
    vproofs,      \* the MerkleProof values the caller handed in
    vsingle,      \* what verify_proof produced
    vbatch,       \* what verify_proofs_batch produced
    \* hash_engine.rs, the streaming interface
    hpc,          \* position of the stream scenario
    hasher,       \* the StreamHasher returned by stream_hash
    fed,          \* the data passed to update since creation or the last reset
    digest,       \* what finalize returned
    hops,         \* the number of update and reset calls made
    \* ffi.rs, one call of an entry point
    usize_bits,   \* the width of usize on the target the library was built for
    lastcall      \* the call made: its arguments, what it did, what it returned

mvars == <<mpc, leaves, algorithm, tree, plevels, ptree, reqIndex, proof, verified,
           leaves2, tree2>>

svars == <<spc, enable_polygon_verification, batch, offset, results,
           aggregated, aggAlgorithm, aggResult>>

fvars == <<heap, envelopes, outstanding, released, calls>>

ivars == <<icapacity, ialgorithm, ileaves, itree, ilast, iops>>

cvars == <<cpc, config, scenario, entropy, runs>>

tvars == <<tpc, tconfig, overflow_checks, now, activities, tresult, activities2,
           current, tresult2>>

vvars == <<vpc, vtree, vproofs, vsingle, vbatch>>

hvars == <<hpc, hasher, fed, digest, hops>>

evars == <<usize_bits, lastcall>>

vars == <<mvars, svars, fvars, ivars, cvars, tvars, vvars, hvars, evars>>

-----------------------------------------------------------------------------
(* Bounds *)

MaxLeaves == 8
MaxPerm == 4
SmallBatch == 3
MaxSigners == 11
MaxCalls == 2
MaxCapacity == 3
MaxOps == 5
MaxIterations == 3
MaxActivities == 2
MaxProofLen == 2
MaxStreamOps == 4

-----------------------------------------------------------------------------
(* hash_engine.rs *)

HashAlgorithm == {"Sha256", "Sha512", "Sha3_256", "Sha3_512", "Blake3"}

\* the algorithms the trees of the scenarios are built with: those the tests and
\* the FFI constructor select
TreeAlgorithms == {"Sha256", "Sha512", "Blake3"}

Byte(b) == [byte |-> b]

LeafValues == {<<Byte(0)>>, <<Byte(1)>>}

\* HashEngine::hash: total, one digest per (algorithm, input)
Hash(alg, data) == <<[alg |-> alg, pre |-> data]>>

-----------------------------------------------------------------------------
(* Completion orders of a rayon parallel map over n items *)

Identity(n) == [j \in 1..n |-> j]

Rotation(n, r) == [j \in 1..n |-> ((j - 1 + r) % n) + 1]

Reversal(n) == [j \in 1..n |-> n + 1 - j]

Schedules(n) ==
    IF n <= MaxPerm
    THEN {f \in [1..n -> 1..n] : \A a, b \in 1..n : f[a] = f[b] => a = b}
    ELSE {Rotation(n, r) : r \in 0..MaxPerm} \cup {Reversal(n)}

\* par_iter().map(f).collect() on an indexed iterator: `completed` lists the
\* (index, value) results in the order the workers finished; collect writes each
\* value at its index.
CollectCompletionOrder(completed) ==
    [j \in 1..Len(completed) |-> completed[j].value]

Collect(completed) ==
    [k \in 1..Len(completed) |->
        completed[CHOOSE j \in 1..Len(completed) : completed[j].idx = k].value]

-----------------------------------------------------------------------------
(* merkle_tree.rs *)

Err(kind) == [ok |-> FALSE, err |-> kind]

NoValue == [ok |-> FALSE, err |-> "none"]

Last(s) == s[Len(s)]

\* the (left, right) pair k of a level, 1-based; the last node is paired with
\* itself when the level has odd length
PairOf(level, k) ==
    LET left == level[2 * k - 1]
        right == IF 2 * k <= Len(level) THEN level[2 * k] ELSE left
    IN <<left, right>>

NumPairs(level) == (Len(level) + 1) \div 2

BuildLevelSwapped(alg, level) ==
    [k \in 1..NumPairs(level) |->
        Hash(alg, PairOf(level, k)[2] \o PairOf(level, k)[1])]

BuildLevelDropOdd(alg, level) ==
    [k \in 1..(IF Len(level) = 1 THEN 1 ELSE Len(level) \div 2) |->
        Hash(alg, PairOf(level, k)[1] \o PairOf(level, k)[2])]

\* MerkleTree::build_level
BuildLevel(alg, level) ==
    [k \in 1..NumPairs(level) |->
        Hash(alg, PairOf(level, k)[1] \o PairOf(level, k)[2])]

RECURSIVE BuildLevels(_, _)
BuildLevels(alg, levels) ==
    IF Len(Last(levels)) > 1
    THEN BuildLevels(alg, Append(levels, BuildLevel(alg, Last(levels))))
    ELSE levels

MakeTree(levels, alg) ==
    [ok |-> TRUE, root |-> Last(levels)[1], levels |-> levels, algorithm |-> alg]

\* MerkleTree::new
New(lvs, alg) ==
    IF lvs = <<>>
    THEN Err("InvalidInput")
    ELSE MakeTree(BuildLevels(alg, <<lvs>>), alg)

\* MerkleTree::build_level_parallel, the workers finishing in `order`
BuildLevelParallel(alg, level, order) ==
    Collect([j \in 1..NumPairs(level) |->
        [idx |-> order[j],
         value |-> Hash(alg, PairOf(level, order[j])[1] \o PairOf(level, order[j])[2])]])

LeafCount(t) == Len(t.levels[1])

Depth(t) == Len(t.levels)

RECURSIVE ProofPathToRoot(_, _, _, _, _)
ProofPathToRoot(t, level, current_index, siblings, directions) ==
    IF level >= Depth(t)
    THEN [siblings |-> siblings, directions |-> directions]
    ELSE LET is_right_node == current_index % 2 = 1
             sibling_index ==
                 IF is_right_node THEN current_index - 1
                 ELSE IF current_index + 1 < Len(t.levels[level + 1])
                      THEN current_index + 1
                      ELSE current_index
         IN ProofPathToRoot(t, level + 1, current_index \div 2,
                            Append(siblings, t.levels[level + 1][sibling_index + 1]),
                            Append(directions, is_right_node))

\* the loop of MerkleTree::generate_proof from `level` (0-based) upward;
\* current_index is 0-based as in the source
RECURSIVE ProofPath(_, _, _, _, _)
ProofPath(t, level, current_index, siblings, directions) ==
    IF level >= Depth(t) - 1
    THEN [siblings |-> siblings, directions |-> directions]
    ELSE LET is_right_node == current_index % 2 = 1
             sibling_index ==
                 IF is_right_node THEN current_index - 1
                 ELSE IF current_index + 1 < Len(t.levels[level + 1])
                      THEN current_index + 1
                      ELSE current_index
         IN ProofPath(t, level + 1, current_index \div 2,
                      Append(siblings, t.levels[level + 1][sibling_index + 1]),
                      Append(directions, is_right_node))

GenerateProofClamped(t, leaf_index) ==
    IF leaf_index > LeafCount(t)
    THEN Err("InvalidInput")
    ELSE LET i == IF leaf_index = LeafCount(t) THEN leaf_index - 1 ELSE leaf_index
             p == ProofPath(t, 0, i, <<>>, <<>>)
         IN [ok |-> TRUE, leaf |-> t.levels[1][i + 1], leaf_index |-> leaf_index,
             siblings |-> p.siblings, directions |-> p.directions]

\* MerkleTree::generate_proof
GenerateProof(t, leaf_index) ==
    IF leaf_index >= LeafCount(t)
    THEN Err("InvalidInput")
    ELSE LET p == ProofPath(t, 0, leaf_index, <<>>, <<>>)
         IN [ok |-> TRUE, leaf |-> t.levels[1][leaf_index + 1],
             leaf_index |-> leaf_index,
             siblings |-> p.siblings, directions |-> p.directions]

\* the loop of MerkleTree::compute_root_from_proof from pair i (1-based)
RECURSIVE FoldProof(_, _, _, _)
FoldProof(alg, p, i, current_hash) ==
    IF i > Len(p.siblings)
    THEN [ok |-> TRUE, value |-> current_hash]
    ELSE IF i > Len(p.directions)
    THEN Err("panic")
    ELSE FoldProof(alg, p, i + 1,
                   IF p.directions[i]
                   THEN Hash(alg, p.siblings[i] \o current_hash)
                   ELSE Hash(alg, current_hash \o p.siblings[i]))

\* MerkleTree::compute_root_from_proof
ComputeRootFromProof(alg, p) == FoldProof(alg, p, 1, p.leaf)

VerifyProofFixedAlgorithm(t, p) ==
    LET computed_root == ComputeRootFromProof("Blake3", p)
    IN IF computed_root.ok
       THEN [ok |-> TRUE, value |-> computed_root.value = t.root]
       ELSE computed_root

\* MerkleTree::verify_proof
VerifyProof(t, p) ==
    LET computed_root == ComputeRootFromProof(t.algorithm, p)
    IN IF computed_root.ok
       THEN [ok |-> TRUE, value |-> computed_root.value = t.root]
       ELSE computed_root

-----------------------------------------------------------------------------
(* The Merkle scenario: build a tree both ways, prove and verify a leaf,   *)
(* replace a leaf and rebuild.                                             *)

LeafLists == UNION {[1..n -> LeafValues] : n \in 0..MaxLeaves}

\* leaves of one or two bytes, and the two-leaf lists over them
WideLeafValues == UNION {[1..n -> {Byte(0), Byte(1)}] : n \in 1..2}

WideLeafLists == [1..2 -> WideLeafValues]

RECURSIVE ConcatAll(_)
ConcatAll(lvs) == IF lvs = <<>> THEN <<>> ELSE Head(lvs) \o ConcatAll(Tail(lvs))

\* other leaf lists a caller may build a second tree from: the list with its
\* last leaf repeated, and the same bytes cut into two leaves at another place
OtherLeafLists(lvs) ==
    {Append(lvs, Last(lvs))}
        \cup {l \in WideLeafLists : Len(lvs) = 2 /\ ConcatAll(l) = ConcatAll(lvs) /\ l # lvs}

MerkleIdle ==
    /\ mpc = "idle"
    /\ leaves = <<>>
    /\ algorithm = "Blake3"
    /\ tree = NoValue
    /\ plevels = <<>>
    /\ ptree = NoValue
    /\ reqIndex = 0
    /\ proof = NoValue
    /\ verified = NoValue
    /\ leaves2 = <<>>
    /\ tree2 = NoValue

MerkleInit ==
    /\ mpc = "start"
    /\ leaves \in LeafLists \cup WideLeafLists
    /\ algorithm \in TreeAlgorithms
    /\ tree = NoValue
    /\ plevels = <<>>
    /\ ptree = NoValue
    /\ reqIndex = 0
    /\ proof = NoValue
    /\ verified = NoValue
    /\ leaves2 = <<>>
    /\ tree2 = NoValue

\* MerkleTree::new(leaves, algorithm), and the entry of new_parallel
MerkleNew ==
    /\ mpc = "start"
    /\ tree' = New(leaves, algorithm)
    /\ IF leaves = <<>>
       THEN /\ ptree' = Err("InvalidInput")
            /\ plevels' = plevels
            /\ mpc' = "failed"
       ELSE /\ ptree' = ptree
            /\ plevels' = <<leaves>>
            /\ mpc' = "parallel"
    /\ UNCHANGED <<leaves, algorithm, reqIndex, proof, verified, leaves2, tree2>>
    /\ UNCHANGED <<svars, fvars, ivars, cvars, tvars, vvars, hvars, evars>>

\* one turn of the while loop of new_parallel
NewParallelLevel ==
    /\ mpc = "parallel"
    /\ Len(Last(plevels)) > 1
    /\ \E order \in Schedules(NumPairs(Last(plevels))) :
          plevels' = Append(plevels, BuildLevelParallel(algorithm, Last(plevels), order))
    /\ UNCHANGED <<mpc, leaves, algorithm, tree, ptree, reqIndex, proof, verified, leaves2, tree2>>
    /\ UNCHANGED <<svars, fvars, ivars, cvars, tvars, vvars, hvars, evars>>

\* the exit of the while loop of new_parallel
NewParallelDone ==
    /\ mpc = "parallel"
    /\ Len(Last(plevels)) = 1
    /\ ptree' = MakeTree(plevels, algorithm)
    /\ mpc' = "built"
    /\ UNCHANGED <<leaves, algorithm, tree, plevels, reqIndex, proof, verified, leaves2, tree2>>
    /\ UNCHANGED <<svars, fvars, ivars, cvars, tvars, vvars, hvars, evars>>

\* tree.generate_proof(i)
MerkleGenerateProof ==
    /\ mpc = "built"
    /\ \E i \in 0..MaxLeaves :
          /\ reqIndex' = i
          /\ proof' = GenerateProof(tree, i)
    /\ mpc' = "proved"
    /\ UNCHANGED <<leaves, algorithm, tree, plevels, ptree, verified, leaves2, tree2>>
    /\ UNCHANGED <<svars, fvars, ivars, cvars, tvars, vvars, hvars, evars>>

\* tree.verify_proof(&proof)
MerkleVerifyProof ==
    /\ mpc = "proved"
    /\ proof.ok
    /\ verified' = VerifyProof(tree, proof)
    /\ mpc' = "verified"
    /\ UNCHANGED <<leaves, algorithm, tree, plevels, ptree, reqIndex, proof, leaves2, tree2>>
    /\ UNCHANGED <<svars, fvars, ivars, cvars, tvars, vvars, hvars, evars>>

\* replace one leaf by a different byte string and rebuild with MerkleTree::new
MerkleReplaceLeaf ==
    /\ mpc = "built"
    /\ \E i \in 1..Len(leaves) : \E v \in LeafValues \ {leaves[i]} :
          /\ leaves2' = [leaves EXCEPT ![i] = v]
          /\ tree2' = New([leaves EXCEPT ![i] = v], algorithm)
    /\ mpc' = "rebuilt"
    /\ UNCHANGED <<leaves, algorithm, tree, plevels, ptree, reqIndex, proof, verified>>
    /\ UNCHANGED <<svars, fvars, ivars, cvars, tvars, vvars, hvars, evars>>

\* MerkleTree::new on a second, different leaf list
MerkleNewOther ==
    /\ mpc = "built"
    /\ \E other \in OtherLeafLists(leaves) :
          /\ leaves2' = other
          /\ tree2' = New(other, algorithm)
    /\ mpc' = "compared"
    /\ UNCHANGED <<leaves, algorithm, tree, plevels, ptree, reqIndex, proof, verified>>
    /\ UNCHANGED <<svars, fvars, ivars, cvars, tvars, vvars, hvars, evars>>

MerkleNext ==
    \/ MerkleNew
    \/ NewParallelLevel
    \/ NewParallelDone
    \/ MerkleGenerateProof
    \/ MerkleVerifyProof
    \/ MerkleReplaceLeaf
    \/ MerkleNewOther


-----------------------------------------------------------------------------
(* merkle_tree.rs: IncrementalMerkleTree *)

\* the completion order of kind `kind` for a parallel map over n items
ScheduleKinds == {"identity", "rotation", "reversal"}

ScheduleOf(kind, n) ==
    CASE kind = "identity" -> Identity(n)
      [] kind = "rotation" -> Rotation(n, 1)
      [] kind = "reversal" -> Reversal(n)

RECURSIVE BuildLevelsParallel(_, _, _)
BuildLevelsParallel(alg, levels, kind) ==
    IF Len(Last(levels)) > 1
    THEN BuildLevelsParallel(alg,
             Append(levels, BuildLevelParallel(alg, Last(levels),
                        ScheduleOf(kind, NumPairs(Last(levels))))), kind)
    ELSE levels

\* MerkleTree::new_parallel as one call, its workers finishing in the order of `kind`
NewParallel(lvs, alg, kind) ==
    IF lvs = <<>>
    THEN Err("InvalidInput")
    ELSE MakeTree(BuildLevelsParallel(alg, <<lvs>>, kind), alg)

KeepCache(t) == t

\* `self.tree = None` of add_leaf and add_leaves
InvalidateCache(t) == NoValue

AddLeafFullStrict(len, capacity) == len > capacity

\* the capacity test of add_leaf
AddLeafFull(len, capacity) == len >= capacity

AddLeavesFullAlready(len, k, capacity) == len >= capacity /\ k > 0

\* the capacity test of add_leaves
AddLeavesFull(len, k, capacity) == len + k > capacity

\* IncrementalMerkleTree::build on the leaves lvs: the new cache, or the error
IncBuildTree(lvs, alg, kind) ==
    IF lvs = <<>> THEN Err("InvalidInput") ELSE NewParallel(lvs, alg, kind)

\* the `if self.tree.is_none() { self.build()?; }` of root and generate_proof
IncEnsureBuilt(t, lvs, alg, kind) ==
    IF t.ok THEN t ELSE IncBuildTree(lvs, alg, kind)

NoCall == [op |-> "none"]

IncIdle ==
    /\ icapacity = 0
    /\ ialgorithm = "Blake3"
    /\ ileaves = <<>>
    /\ itree = NoValue
    /\ ilast = NoCall
    /\ iops = 0

\* IncrementalMerkleTree::new(capacity, algorithm)
IncInit ==
    /\ icapacity \in 0..MaxCapacity
    /\ ialgorithm \in {"Sha256", "Blake3"}
    /\ ileaves = <<>>
    /\ itree = NoValue
    /\ ilast = NoCall
    /\ iops = 0

\* add_leaf(leaf)
IncAddLeaf ==
    /\ iops < MaxOps
    /\ \E leaf \in LeafValues :
          IF AddLeafFull(Len(ileaves), icapacity)
          THEN /\ ilast' = [op |-> "add_leaf", before |-> Len(ileaves), k |-> 1,
                            result |-> Err("InvalidInput")]
               /\ UNCHANGED <<ileaves, itree>>
          ELSE /\ ileaves' = Append(ileaves, leaf)
               /\ itree' = InvalidateCache(itree)
               /\ ilast' = [op |-> "add_leaf", before |-> Len(ileaves), k |-> 1,
                            result |-> [ok |-> TRUE]]
    /\ iops' = iops + 1
    /\ UNCHANGED <<icapacity, ialgorithm>>
    /\ UNCHANGED <<mvars, svars, fvars, cvars, tvars, vvars, hvars, evars>>

\* add_leaves(new_leaves)
IncAddLeaves ==
    /\ iops < MaxOps
    /\ \E k \in 0..2 : \E new_leaves \in [1..k -> LeafValues] :
          IF AddLeavesFull(Len(ileaves), k, icapacity)
          THEN /\ ilast' = [op |-> "add_leaves", before |-> Len(ileaves), k |-> k,
                            result |-> Err("InvalidInput")]
               /\ UNCHANGED <<ileaves, itree>>
          ELSE /\ ileaves' = ileaves \o new_leaves
               /\ itree' = InvalidateCache(itree)
               /\ ilast' = [op |-> "add_leaves", before |-> Len(ileaves), k |-> k,
                            result |-> [ok |-> TRUE]]
    /\ iops' = iops + 1
    /\ UNCHANGED <<icapacity, ialgorithm>>
    /\ UNCHANGED <<mvars, svars, fvars, cvars, tvars, vvars, hvars, evars>>

\* build()
IncBuild ==
    /\ iops < MaxOps
    /\ \E kind \in ScheduleKinds :
          LET built == IncBuildTree(ileaves, ialgorithm, kind)
          IN /\ itree' = IF built.ok THEN built ELSE itree
             /\ ilast' = [op |-> "build", before |-> Len(ileaves), k |-> 0,
                          result |-> IF built.ok THEN [ok |-> TRUE] ELSE built]
    /\ iops' = iops + 1
    /\ UNCHANGED <<icapacity, ialgorithm, ileaves>>
    /\ UNCHANGED <<mvars, svars, fvars, cvars, tvars, vvars, hvars, evars>>

\* root()
IncRoot ==
    /\ iops < MaxOps
    /\ \E kind \in ScheduleKinds :
          LET t == IncEnsureBuilt(itree, ileaves, ialgorithm, kind)
          IN /\ itree' = IF t.ok THEN t ELSE itree
             /\ ilast' = [op |-> "root", before |-> Len(ileaves), k |-> 0,
                          result |-> IF t.ok THEN [ok |-> TRUE, value |-> t.root]
                                     ELSE t]
    /\ iops' = iops + 1
    /\ UNCHANGED <<icapacity, ialgorithm, ileaves>>
    /\ UNCHANGED <<mvars, svars, fvars, cvars, tvars, vvars, hvars, evars>>

\* generate_proof(leaf_index)
IncGenerateProof ==
    /\ iops < MaxOps
    /\ \E kind \in ScheduleKinds, leaf_index \in 0..MaxCapacity :
          LET t == IncEnsureBuilt(itree, ileaves, ialgorithm, kind)
          IN /\ itree' = IF t.ok THEN t ELSE itree
             /\ ilast' = [op |-> "generate_proof", before |-> Len(ileaves),
                          k |-> leaf_index,
                          result |-> IF t.ok THEN GenerateProof(t, leaf_index) ELSE t]
    /\ iops' = iops + 1
    /\ UNCHANGED <<icapacity, ialgorithm, ileaves>>
    /\ UNCHANGED <<mvars, svars, fvars, cvars, tvars, vvars, hvars, evars>>

IncNext ==
    \/ IncAddLeaf
    \/ IncAddLeaves
    \/ IncBuild
    \/ IncRoot
    \/ IncGenerateProof


-----------------------------------------------------------------------------
(* signature_verifier.rs *)

SignatureAlgorithm == {"Ed25519", "EcdsaP256", "RsaPss2048", "PolygonEcdsa"}

PUBLIC_KEY_LENGTH == 32
SIGNATURE_LENGTH == 64
ChunkSize == 100
AggregatedParallelThreshold == 10

\* A public key is [len, point]: its byte length and the key it encodes (0: the
\* bytes decode to no key).  A signature is [len, scheme, signer, msg,
\* canonical]: its byte length, the primitive and key that made it, the message
\* it signs, and whether its bytes decode.  The verification time of a result
\* is left out: it is a clock reading no claim refers to.

\* the underlying verify primitive: a signature verifies under the scheme and
\* key that made it, on the message it signs, and nothing else; bytes that
\* decode to no signature verify under no key
PrimitiveVerify(scheme, public_key, message, signature) ==
    /\ signature.canonical
    /\ signature.scheme = scheme
    /\ signature.signer = public_key.point
    /\ signature.msg = message

Ok(v) == [ok |-> TRUE, value |-> v]

VerifyEd25519Unchecked(request) ==
    IF request.public_key.point = 0 THEN Err("CryptoOperationFailed")
    ELSE IF ~request.signature.canonical THEN Err("CryptoOperationFailed")
    ELSE Ok(PrimitiveVerify("Ed25519", request.public_key, request.message,
                            request.signature))

\* SignatureVerifier::verify_ed25519
VerifyEd25519(request) ==
    IF request.public_key.len # PUBLIC_KEY_LENGTH THEN Err("InvalidInput")
    ELSE IF request.signature.len # SIGNATURE_LENGTH THEN Err("InvalidInput")
    ELSE IF request.public_key.point = 0 THEN Err("CryptoOperationFailed")
    ELSE IF ~request.signature.canonical THEN Err("CryptoOperationFailed")
    ELSE Ok(PrimitiveVerify("Ed25519", request.public_key, request.message,
                            request.signature))

\* SignatureVerifier::verify_ecdsa_p256
VerifyEcdsaP256(request) ==
    Ok(PrimitiveVerify("EcdsaP256", request.public_key, request.message,
                       request.signature))

\* SignatureVerifier::verify_rsa_pss
VerifyRsaPss(request) ==
    Ok(PrimitiveVerify("RsaPss2048", request.public_key, request.message,
                       request.signature))

\* "\x19Ethereum Signed Message:\n{len}" followed by the message
EthPrefixed(message) == <<[eth_prefix |-> Len(message)]>> \o message

\* SignatureVerifier::verify_polygon_ecdsa: the P-256 primitive on the Blake3
\* hash of the prefixed message
VerifyPolygonEcdsa(request) ==
    Ok(PrimitiveVerify("EcdsaP256", request.public_key,
                       Hash("Blake3", EthPrefixed(request.message)),
                       request.signature))

\* SignatureVerifier::verify_internal
VerifyInternal(request) ==
    CASE request.algorithm = "Ed25519" -> VerifyEd25519(request)
      [] request.algorithm = "EcdsaP256" -> VerifyEcdsaP256(request)
      [] request.algorithm = "RsaPss2048" -> VerifyRsaPss(request)
      [] request.algorithm = "PolygonEcdsa" -> VerifyPolygonEcdsa(request)

\* SignatureVerifier::verify_signature
VerifySignature(request) ==
    LET r == VerifyInternal(request)
    IN [valid |-> IF r.ok THEN r.value ELSE FALSE,
        algorithm |-> request.algorithm,
        polygon_verified |->
            request.polygon_tx_hash # "None" /\ enable_polygon_verification,
        error |-> IF r.ok THEN "None" ELSE r.err]

\* the entry pushed for a request that fail-fast did not verify
SkippedResult ==
    [valid |-> FALSE, algorithm |-> "Ed25519", polygon_verified |-> FALSE,
     error |-> "Skipped due to fail-fast"]

FillSkippedNone(res, n) == res

\* for _ in results.len()..batch.requests.len() { results.push(skipped) }
FillSkipped(res, n) ==
    res \o [i \in 1..(n - Len(res)) |-> SkippedResult]

\* the body of the loop of verify_batch_sequential for request i (1-based), on
\* the loop state [res, broke]: the results pushed and whether `break` was taken
SequentialBody(b, i, st) ==
    IF st.broke
    THEN st
    ELSE LET result == VerifySignature(b.requests[i])
         IN IF b.fail_fast /\ ~result.valid
            THEN [res |-> FillSkipped(Append(st.res, result), Len(b.requests)),
                  broke |-> TRUE]
            ELSE [res |-> Append(st.res, result), broke |-> FALSE]

\* the loop of verify_batch_sequential over requests lo..hi in order, as the
\* composition of its two halves
RECURSIVE SequentialLoop(_, _, _, _)
SequentialLoop(b, lo, hi, st) ==
    IF lo > hi THEN st
    ELSE IF lo = hi THEN SequentialBody(b, lo, st)
    ELSE LET mid == (lo + hi) \div 2
             first == SequentialLoop(b, lo, mid, st)
         IN IF first.broke THEN first ELSE SequentialLoop(b, mid + 1, hi, first)

\* SignatureVerifier::verify_batch_sequential
VerifyBatchSequential(b) ==
    SequentialLoop(b, 1, Len(b.requests), [res |-> <<>>, broke |-> FALSE]).res

\* requests.par_iter().map(|request| self.verify_signature(request)).collect(),
\* the workers finishing in `order`
ParVerify(requests, order) ==
    Collect([j \in 1..Len(requests) |->
        [idx |-> order[j], value |-> VerifySignature(requests[order[j]])]])

\* the scan of chunk_results in verify_batch_parallel_fail_fast: the results
\* pushed, up to and including the first invalid one
FirstInvalid(rs) ==
    IF \E i \in 1..Len(rs) : ~rs[i].valid
    THEN CHOOSE i \in 1..Len(rs) :
            ~rs[i].valid /\ \A j \in 1..(i - 1) : rs[j].valid
    ELSE 0

ScanChunkWhole(chunk_results) ==
    [failed |-> FirstInvalid(chunk_results) # 0, pushed |-> chunk_results]

ScanChunk(chunk_results) ==
    LET k == FirstInvalid(chunk_results)
    IN [failed |-> k # 0,
        pushed |-> IF k = 0 THEN chunk_results ELSE SubSeq(chunk_results, 1, k)]

\* the dispatch of verify_batch and verify_batch_parallel
BatchPath(b) ==
    IF Len(b.requests) > b.parallel_threshold
    THEN IF b.fail_fast THEN "chunks" ELSE "parallel"
    ELSE "sequential"

ThresholdMetStrict(valid_count, threshold) == valid_count > threshold

\* let threshold_met = valid_count >= aggregated.threshold
ThresholdMet(valid_count, threshold) == valid_count >= threshold

\* results.iter().filter(|r| r.valid).count()
RECURSIVE CountValid(_, _)
CountValid(rs, i) ==
    IF i > Len(rs) THEN 0
    ELSE (IF rs[i].valid THEN 1 ELSE 0) + CountValid(rs, i + 1)

\* the requests verify_aggregated_signature builds from the zipped lists
AggregatedRequests(a, alg) ==
    [i \in 1..Len(a.signatures) |->
        [message |-> a.message, signature |-> a.signatures[i],
         public_key |-> a.public_keys[i], algorithm |-> alg,
         polygon_tx_hash |-> "None"]]

\* SignatureVerifier::verify_aggregated_signature, the workers of the parallel
\* path finishing in `order`
VerifyAggregatedSignature(a, alg, order) ==
    IF Len(a.signatures) # Len(a.public_keys)
    THEN [valid |-> FALSE, valid_signatures |-> 0,
          total_signatures |-> Len(a.signatures), threshold_met |-> FALSE,
          individual_results |-> <<>>,
          error |-> "Signature and public key count mismatch"]
    ELSE LET batch_request ==
                 [requests |-> AggregatedRequests(a, alg), fail_fast |-> FALSE,
                  parallel_threshold |-> AggregatedParallelThreshold]
             res == IF BatchPath(batch_request) = "parallel"
                    THEN ParVerify(batch_request.requests, order)
                    ELSE VerifyBatchSequential(batch_request)
             valid_count == CountValid(res, 1)
             threshold_met == ThresholdMet(valid_count, a.threshold)
         IN [valid |-> threshold_met, valid_signatures |-> valid_count,
             total_signatures |-> Len(a.signatures),
             threshold_met |-> threshold_met,
             individual_results |-> res, error |-> "None"]

-----------------------------------------------------------------------------
(* The signature scenarios: one verify_batch call, or one                  *)
(* verify_aggregated_signature call.                                       *)

Message(i) == <<Byte(i % 2)>>

OtherMessage == <<Byte(0), Byte(1)>>

\* the algorithm of the request at position i
AlgorithmAt(i) ==
    CASE i % 4 = 1 -> "Ed25519"
      [] i % 4 = 2 -> "EcdsaP256"
      [] i % 4 = 3 -> "RsaPss2048"
      [] i % 4 = 0 -> "PolygonEcdsa"

SchemeOf(alg) == IF alg = "PolygonEcdsa" THEN "EcdsaP256" ELSE alg

SignedMessage(alg, message) ==
    IF alg = "PolygonEcdsa" THEN Hash("Blake3", EthPrefixed(message)) ELSE message

KeyOf(signer) == [len |-> PUBLIC_KEY_LENGTH, point |-> signer]

\* the signature of `message` by `signer` under `alg`
Sign(alg, signer, message) ==
    [len |-> SIGNATURE_LENGTH, scheme |-> SchemeOf(alg), signer |-> signer,
     msg |-> SignedMessage(alg, message), canonical |-> TRUE]

\* a correctly signed request
GoodRequest(alg, i) ==
    [message |-> Message(i), signature |-> Sign(alg, i, Message(i)),
     public_key |-> KeyOf(i), algorithm |-> alg,
     polygon_tx_hash |-> IF i % 2 = 0 THEN "0x" ELSE "None"]

\* a request that does not verify: a signature of another message, a public
\* key one byte short, or a signature one byte short
BadRequest(alg, i, kind) ==
    CASE kind = "forged" ->
            [GoodRequest(alg, i) EXCEPT !.signature = Sign(alg, i, OtherMessage)]
      [] kind = "short_key" ->
            [GoodRequest(alg, i) EXCEPT
                !.public_key = [len |-> PUBLIC_KEY_LENGTH - 1, point |-> 0]]
      [] kind = "short_signature" ->
            [GoodRequest(alg, i) EXCEPT
                !.signature = [@ EXCEPT !.len = SIGNATURE_LENGTH - 1,
                                        !.canonical = FALSE]]

BadKinds == {"forged", "short_key", "short_signature"}

BatchLens == (0..SmallBatch) \cup {ChunkSize, ChunkSize + 1, 2 * ChunkSize + 1}

\* the positions of a batch of n requests where a failing request is tried: the
\* first ones, those next to a chunk boundary, and the last
Positions(n) ==
    {p \in 1..n : \/ p <= SmallBatch
                  \/ p % ChunkSize \in {ChunkSize - 1, 0, 1}
                  \/ p = n}

Thresholds == {0, SmallBatch - 1, ChunkSize, 10 * ChunkSize}

\* no failing position, one, or two
FailingSets(P) == {{}} \cup {{p, q} : p \in P, q \in P}

Batches ==
    {[requests |-> [i \in 1..n |->
                       IF i \in F THEN BadRequest(AlgorithmAt(i), i, kind)
                       ELSE GoodRequest(AlgorithmAt(i), i)],
      fail_fast |-> ff, parallel_threshold |-> t] :
        n \in BatchLens, F \in FailingSets(Positions(2 * ChunkSize + 1)),
        kind \in BadKinds, ff \in BOOLEAN, t \in Thresholds}

NoBatch == [requests |-> <<>>, fail_fast |-> FALSE, parallel_threshold |-> 0]

NoAggregated == [signatures |-> <<>>, public_keys |-> <<>>, message |-> <<>>,
                 threshold |-> 0]

\* aggregated inputs: n signers of one message, up to two of them with a
\* signature of another message, and possibly one public key missing
Aggregate(n, F, missing, t, alg) ==
    [signatures |-> [i \in 1..n |->
                        IF i \in F THEN Sign(alg, i, OtherMessage)
                        ELSE Sign(alg, i, Message(0))],
     public_keys |-> [i \in 1..(n - missing) |-> KeyOf(i)],
     message |-> Message(0), threshold |-> t, algorithm |-> alg]

Aggregates ==
    {Aggregate(n, F, 0, t, alg) :
        n \in 0..MaxSigners, F \in FailingSets(1..MaxSigners),
        t \in 0..(MaxSigners + 1), alg \in SignatureAlgorithm}
    \cup
    {Aggregate(n, {}, 1, t, alg) :
        n \in 1..MaxSigners, t \in {0, 1}, alg \in SignatureAlgorithm}

SigIdle ==
    /\ spc = "idle"
    /\ enable_polygon_verification = FALSE
    /\ batch = NoBatch
    /\ offset = 0
    /\ results = <<>>
    /\ aggregated = NoAggregated
    /\ aggAlgorithm = "Ed25519"
    /\ aggResult = NoValue

SigInit ==
    /\ offset = 0
    /\ results = <<>>
    /\ aggResult = NoValue
    /\ \/ /\ spc = "batch"
          /\ enable_polygon_verification \in BOOLEAN
          /\ batch \in Batches
          /\ aggregated = NoAggregated
          /\ aggAlgorithm = "Ed25519"
       \/ /\ spc = "aggregated"
          /\ enable_polygon_verification = FALSE
          /\ batch = NoBatch
          /\ \E a \in Aggregates :
                /\ aggregated = [signatures |-> a.signatures,
                                 public_keys |-> a.public_keys,
                                 message |-> a.message, threshold |-> a.threshold]
                /\ aggAlgorithm = a.algorithm

\* verify_batch, sequential path
BatchSequential ==
    /\ spc = "batch"
    /\ BatchPath(batch) = "sequential"
    /\ results' = VerifyBatchSequential(batch)
    /\ spc' = "done"
    /\ UNCHANGED <<enable_polygon_verification, batch, offset, aggregated,
                   aggAlgorithm, aggResult>>
    /\ UNCHANGED <<mvars, fvars, ivars, cvars, tvars, vvars, hvars, evars>>

\* verify_batch, parallel path without fail-fast
BatchParallel ==
    /\ spc = "batch"
    /\ BatchPath(batch) = "parallel"
    /\ \E order \in Schedules(Len(batch.requests)) :
          results' = ParVerify(batch.requests, order)
    /\ spc' = "done"
    /\ UNCHANGED <<enable_polygon_verification, batch, offset, aggregated,
                   aggAlgorithm, aggResult>>
    /\ UNCHANGED <<mvars, fvars, ivars, cvars, tvars, vvars, hvars, evars>>

\* verify_batch, entering verify_batch_parallel_fail_fast
BatchFailFastEnter ==
    /\ spc = "batch"
    /\ BatchPath(batch) = "chunks"
    /\ spc' = "chunks"
    /\ UNCHANGED <<enable_polygon_verification, batch, offset, results,
                   aggregated, aggAlgorithm, aggResult>>
    /\ UNCHANGED <<mvars, fvars, ivars, cvars, tvars, vvars, hvars, evars>>

Min(a, b) == IF a <= b THEN a ELSE b

\* one turn of the chunk loop of verify_batch_parallel_fail_fast
BatchChunk ==
    /\ spc = "chunks"
    /\ offset < Len(batch.requests)
    /\ LET n == Len(batch.requests)
           chunk == SubSeq(batch.requests, offset + 1, Min(offset + ChunkSize, n))
       IN \E order \in Schedules(Len(chunk)) :
             LET scan == ScanChunk(ParVerify(chunk, order))
             IN IF scan.failed
                THEN /\ results' = FillSkipped(results \o scan.pushed, n)
                     /\ offset' = offset
                     /\ spc' = "done"
                ELSE /\ results' = results \o scan.pushed
                     /\ offset' = offset + Len(chunk)
                     /\ spc' = IF offset + Len(chunk) >= n THEN "done" ELSE "chunks"
    /\ UNCHANGED <<enable_polygon_verification, batch, aggregated, aggAlgorithm,
                   aggResult>>
    /\ UNCHANGED <<mvars, fvars, ivars, cvars, tvars, vvars, hvars, evars>>

\* verify_aggregated_signature
Aggregated ==
    /\ spc = "aggregated"
    /\ \E order \in Schedules(Len(aggregated.signatures)) :
          aggResult' = VerifyAggregatedSignature(aggregated, aggAlgorithm, order)
    /\ spc' = "aggregated_done"
    /\ UNCHANGED <<enable_polygon_verification, batch, offset, results,
                   aggregated, aggAlgorithm>>
    /\ UNCHANGED <<mvars, fvars, ivars, cvars, tvars, vvars, hvars, evars>>

SigNext ==
    \/ BatchSequential
    \/ BatchParallel
    \/ BatchFailFastEnter
    \/ BatchChunk
    \/ Aggregated

-----------------------------------------------------------------------------
(* ffi.rs *)

\* A length is kept as two limbs, [hi, lo] for hi * 2^16 + lo, so that lengths
\* of 2^32 bytes and more, and their truncation to the 32 bits of c_uint, can
\* be written.
LimbBase == 2 ^ 16

W(n) == [hi |-> n \div LimbBase, lo |-> n % LimbBase]

WAdd(a, b) ==
    [hi |-> a.hi + b.hi + ((a.lo + b.lo) \div LimbBase),
     lo |-> (a.lo + b.lo) % LimbBase]

WMul(k, a) ==
    [hi |-> k * a.hi + ((k * a.lo) \div LimbBase), lo |-> (k * a.lo) % LimbBase]

WLess(a, b) == a.hi < b.hi \/ (a.hi = b.hi /\ a.lo < b.lo)

\* a - b, for b <= a
WSub(a, b) ==
    IF a.lo >= b.lo
    THEN [hi |-> a.hi - b.hi, lo |-> a.lo - b.lo]
    ELSE [hi |-> a.hi - b.hi - 1, lo |-> a.lo + LimbBase - b.lo]

WMin(a, b) == IF WLess(a, b) THEN a ELSE b

WMax(a, b) == IF WLess(a, b) THEN b ELSE a

RECURSIVE WSum(_, _)
WSum(ws, i) == IF i > Len(ws) THEN W(0) ELSE WAdd(ws[i], WSum(ws, i + 1))

\* 2^32, one more than the largest c_uint
TwoTo32 == [hi |-> LimbBase, lo |-> 0]

\* `n as c_uint` on a 64-bit usize: the low 32 bits
AsCUint(n) == [hi |-> n.hi % LimbBase, lo |-> n.lo]

NULL == 0

\* HashEngine::hash: the digest length of each algorithm, in bytes
DigestLen(alg) == IF alg \in {"Sha512", "Sha3_512"} THEN 64 ELSE 32

ResultSuccessWithMessage(payload_len, data_ptr, message_ptr) ==
    [error_code |-> "Success",
     data |-> IF payload_len = W(0) THEN NULL ELSE data_ptr,
     data_len |-> AsCUint(payload_len),
     error_message |-> message_ptr]

\* VelocityCryptoResult::success for a payload of payload_len bytes; data_ptr is
\* the address of the boxed slice made for a non-empty payload, message_ptr that
\* of the CString an error would make
ResultSuccess(payload_len, data_ptr, message_ptr) ==
    [error_code |-> "Success",
     data |-> IF payload_len = W(0) THEN NULL ELSE data_ptr,
     data_len |-> AsCUint(payload_len),
     error_message |-> NULL]

\* VelocityCryptoResult::error
ResultError(code, data_ptr, message_ptr) ==
    [error_code |-> code, data |-> NULL, data_len |-> W(0),
     error_message |-> message_ptr]

FfiSuccessOutcome(payload_len) == [kind |-> "success", payload |-> payload_len]

FfiErrorOutcome(code) == [kind |-> "error", code |-> code]

\* the match on `algorithm` of velocity_crypto_hash
HashAlgorithmOfCode(algorithm_code) ==
    CASE algorithm_code = 0 -> [ok |-> TRUE, value |-> "Sha256"]
      [] algorithm_code = 1 -> [ok |-> TRUE, value |-> "Sha512"]
      [] algorithm_code = 2 -> [ok |-> TRUE, value |-> "Sha3_256"]
      [] algorithm_code = 3 -> [ok |-> TRUE, value |-> "Sha3_512"]
      [] algorithm_code = 4 -> [ok |-> TRUE, value |-> "Blake3"]
      [] OTHER -> Err("InvalidInput")

\* velocity_crypto_hash, up to the construction of the result.  `data` is
\* "null", or the length class of the slice; the hash itself cannot fail.
HashOutcome(data, algorithm_code) ==
    IF data = "null" THEN FfiErrorOutcome("InvalidInput")
    ELSE LET alg == HashAlgorithmOfCode(algorithm_code)
         IN IF ~alg.ok THEN FfiErrorOutcome("InvalidInput")
            ELSE FfiSuccessOutcome(W(DigestLen(alg.value)))

\* A leaves buffer is [null, bytes]: whether the pointer is null, and the
\* leaves_data_len bytes behind it as runs [len, byte] of equal bytes, so that
\* buffers of 2^31 bytes and more can be written.

\* data_slice.len()
BufferLen(data) == WSum([k \in 1..Len(data) |-> data[k].len], 1)

RECURSIVE ByteAtFrom(_, _, _, _)
ByteAtFrom(data, off, k, start) ==
    IF WLess(off, WAdd(start, data[k].len))
    THEN data[k].byte
    ELSE ByteAtFrom(data, off, k + 1, WAdd(start, data[k].len))

\* data_slice[off], for off < data_slice.len()
ByteAt(data, off) == ByteAtFrom(data, off, 1, W(0))

RECURSIVE SliceFrom(_, _, _, _, _)
SliceFrom(data, from, to, k, start) ==
    IF k > Len(data) THEN <<>>
    ELSE LET stop == WAdd(start, data[k].len)
             lo == WMax(start, from)
             hi == WMin(stop, to)
         IN (IF WLess(lo, hi)
             THEN <<[len |-> WSub(hi, lo), byte |-> data[k].byte]>>
             ELSE <<>>)
            \o SliceFrom(data, from, to, k + 1, stop)

\* data_slice[from..to].to_vec(), for from <= to <= data_slice.len()
Slice(data, from, to) == SliceFrom(data, from, to, 1, W(0))

\* u32::from_le_bytes(b) as usize
U32FromLeBytes(b) == [hi |-> b[3] + 256 * b[4], lo |-> b[1] + 256 * b[2]]

ParseFailure(kind, read_end) == [ok |-> FALSE, err |-> kind, read_end |-> read_end]

\* the parse loop of velocity_crypto_merkle_tree_create from record k at
\* `off`: the leaves parsed and the end of the last range read, or the error
\* returned.  Where usize has 32 bits, off + len can pass 2^32: a build with
\* overflow checks panics at the addition, one without wraps to an end below
\* off, which passes the length check and panics at the slice.
RECURSIVE ParseLeaves(_, _, _, _, _, _)
ParseLeaves(data, leaf_count, k, off, lvs, bits) ==
    IF k > leaf_count
    THEN [ok |-> TRUE, leaves |-> lvs, read_end |-> off]
    ELSE IF WLess(BufferLen(data), WAdd(off, W(4)))
    THEN ParseFailure("Invalid leaf data format", off)
    ELSE LET len == U32FromLeBytes([j \in 1..4 |-> ByteAt(data, WAdd(off, W(j - 1)))])
             start == WAdd(off, W(4))
             end == WAdd(start, len)
         IN IF bits = 32 /\ ~WLess(end, TwoTo32)
            THEN ParseFailure("panic", start)
            ELSE IF WLess(BufferLen(data), end)
            THEN ParseFailure("Invalid leaf length", start)
            ELSE ParseLeaves(data, leaf_count, k + 1, end,
                             Append(lvs, Slice(data, start, end)), bits)

\* the number of nodes of each level of a tree of n leaves, leaves first
RECURSIVE LevelSizes(_)
LevelSizes(n) == IF n <= 1 THEN <<n>> ELSE <<n>> \o LevelSizes((n + 1) \div 2)

\* bincode::serialize(&tree): the byte length of the serialized MerkleTree built
\* from leaves of the given lengths.  A Vec is an 8-byte length followed by its
\* elements, the algorithm a 4-byte variant index.
SerializedTreeLen(leaf_lens, alg) ==
    LET sizes == LevelSizes(Len(leaf_lens))
        node == WAdd(W(8), W(DigestLen(alg)))
        level0 == WAdd(W(8), WAdd(WMul(Len(leaf_lens), W(8)), WSum(leaf_lens, 1)))
        upper == WSum([i \in 1..(Len(sizes) - 1) |->
                          WAdd(W(8), WMul(sizes[i + 1], node))], 1)
        root == IF Len(leaf_lens) = 1 THEN WAdd(W(8), leaf_lens[1]) ELSE node
    IN WAdd(root, WAdd(W(8), WAdd(level0, WAdd(upper, W(4)))))

\* the match on `algorithm` of velocity_crypto_merkle_tree_create
TreeAlgorithmOfCode(algorithm_code) ==
    CASE algorithm_code = 0 -> "Sha256"
      [] algorithm_code = 1 -> "Sha512"
      [] algorithm_code = 4 -> "Blake3"
      [] OTHER -> "Blake3"

FfiPanicOutcome == [kind |-> "panic"]

\* velocity_crypto_merkle_tree_create, up to the construction of the result:
\* the outcome, with the algorithm selected, the leaves decoded and the end of
\* the last range of the buffer read
MerkleTreeCreateRun(buf, leaf_count, algorithm_code, bits) ==
    IF buf.null \/ leaf_count = 0
    THEN [outcome |-> FfiErrorOutcome("InvalidInput"), algorithm |-> "none",
          leaves |-> <<>>, read_end |-> W(0)]
    ELSE LET alg == TreeAlgorithmOfCode(algorithm_code)
             parsed == ParseLeaves(buf.bytes, leaf_count, 1, W(0), <<>>, bits)
         IN IF parsed.ok
            THEN [outcome |->
                     FfiSuccessOutcome(SerializedTreeLen(
                         [k \in 1..Len(parsed.leaves) |-> BufferLen(parsed.leaves[k])],
                         alg)),
                  algorithm |-> alg, leaves |-> parsed.leaves,
                  read_end |-> parsed.read_end]
            ELSE [outcome |-> IF parsed.err = "panic" THEN FfiPanicOutcome
                              ELSE FfiErrorOutcome("InvalidInput"),
                  algorithm |-> alg, leaves |-> <<>>, read_end |-> parsed.read_end]

MerkleTreeCreateOutcome(buf, leaf_count, algorithm_code, bits) ==
    MerkleTreeCreateRun(buf, leaf_count, algorithm_code, bits).outcome

\* serde_json::to_vec of a result struct: a non-empty document, whose exact
\* length (a few hundred bytes) the envelope does not depend on
JsonLen == W(256)

\* velocity_crypto_calculate_trust_score, up to the construction of the result.
\* `input` is the class of the C string: null, not UTF-8, not a JSON activity
\* list, or a list; calculate_trust_score has no failing return.
TrustScoreOutcome(input) ==
    CASE input = "null" -> FfiErrorOutcome("InvalidInput")
      [] input = "bad_utf8" -> FfiErrorOutcome("InvalidInput")
      [] input = "bad_json" -> FfiErrorOutcome("SerializationError")
      [] input = "ok" -> FfiSuccessOutcome(JsonLen)

\* velocity_crypto_monte_carlo_simulate, up to the construction of the result;
\* "sim_err" is a scenario simulate_compliance_risk returns Err for (no
\* iterations, an empty empirical distribution)
MonteCarloOutcome(input) ==
    CASE input = "null" -> FfiErrorOutcome("InvalidInput")
      [] input = "bad_utf8" -> FfiErrorOutcome("InvalidInput")
      [] input = "bad_json" -> FfiErrorOutcome("SerializationError")
      [] input = "sim_err" -> FfiErrorOutcome("CryptoOperationFailed")
      [] input = "ok" -> FfiSuccessOutcome(JsonLen)

\* velocity_crypto_verify_signature, up to the construction of the result;
\* verify_signature itself always returns a result, which is serialized
VerifySignatureOutcome(any_null, algorithm_code) ==
    IF any_null THEN FfiErrorOutcome("InvalidInput")
    ELSE IF algorithm_code \notin 0..3 THEN FfiErrorOutcome("InvalidInput")
    ELSE FfiSuccessOutcome(JsonLen)

-----------------------------------------------------------------------------
(* The FFI scenario: entry-point calls, and the caller freeing each result  *)
(* it holds once.                                                          *)

AlgorithmCodes == 0..5

\* the four bytes of a length prefix, as the caller writes them
LeBytes(w) == <<w.lo % 256, w.lo \div 256, w.hi % 256, w.hi \div 256>>

\* one [len][data] record declaring `declared` bytes, all of value `fill`
RecordBytes(declared, fill) ==
    [j \in 1..4 |-> [len |-> W(1), byte |-> LeBytes(declared)[j]]]
        \o (IF declared = W(0) THEN <<>> ELSE <<[len |-> declared, byte |-> fill]>>)

RECURSIVE RecordsBytes(_, _)
RecordsBytes(declared, fills) ==
    IF declared = <<>> THEN <<>>
    ELSE RecordBytes(Head(declared), Head(fills))
            \o RecordsBytes(Tail(declared), Tail(fills))

\* the buffer a caller passes: the records of leaves of the `declared` lengths,
\* leaf k filled with Fills[k], of which the first `total` bytes are there
Fills == <<170, 187>>

Buffer(declared, total) ==
    [null |-> FALSE, declared |-> declared, total |-> total,
     bytes |-> Slice(RecordsBytes(declared, Fills), W(0), total)]

MaxU32 == [hi |-> LimbBase - 1, lo |-> LimbBase - 1]

SmallBuffers ==
    {[null |-> TRUE, declared |-> <<>>, total |-> W(0), bytes |-> <<>>],
     Buffer(<<W(3)>>, W(7)),
     Buffer(<<W(1), W(2)>>, W(11)),
     Buffer(<<W(0), W(1)>>, W(9)),
     Buffer(<<W(3)>>, W(6)),
     Buffer(<<W(3)>>, W(2)),
     Buffer(<<MaxU32>>, W(5))}

\* two leaves of 2^31 - 62 bytes each: a buffer of 2^32 - 116 bytes, which
\* leaves_data_len can hold, whose tree serializes to 2^32 bytes exactly under
\* a 32-byte digest
HalfLeaf == [hi |-> LimbBase \div 2 - 1, lo |-> LimbBase - 62]

LargeBuffers ==
    {Buffer(<<HalfLeaf, HalfLeaf>>, WAdd(W(8), WMul(2, HalfLeaf))),
     Buffer(<<HalfLeaf, WAdd(HalfLeaf, W(5))>>,
            WAdd(W(8), WAdd(HalfLeaf, WAdd(HalfLeaf, W(5)))))}

LeafBuffers == SmallBuffers \cup LargeBuffers

\* a slice is at most isize::MAX bytes long
FitsAddressSpace(buf, bits) ==
    bits = 32 => WLess(buf.total, [hi |-> LimbBase \div 2, lo |-> 0])

FfiInit ==
    /\ heap = <<>>
    /\ envelopes = <<>>
    /\ outstanding = {}
    /\ released = {}
    /\ calls = 0

Allocation(kind, size) ==
    [kind |-> kind, size |-> size, state |-> "live", releases |-> 0]

\* Box::into_raw(Box::new(result)), with the buffer the result owns: the
\* allocations made and the envelope handed to the caller
ReturnResult(entry, outcome) ==
    LET e == Len(heap) + 1
        env == IF outcome.kind = "success"
               THEN ResultSuccess(outcome.payload, e + 1, e + 1)
               ELSE ResultError(outcome.code, e + 1, e + 1)
        owned == IF env.data # NULL
                 THEN <<Allocation("data", outcome.payload)>>
                 ELSE IF env.error_message # NULL
                 THEN <<Allocation("message", W(0))>>
                 ELSE <<>>
    IN /\ heap' = heap \o <<Allocation("envelope", W(0))>> \o owned
       /\ envelopes' = envelopes \o
             <<[ptr |-> e, entry |-> entry, fields |-> env,
                payload |-> IF outcome.kind = "success" THEN outcome.payload
                            ELSE W(0)]>>
       /\ outstanding' = outstanding \cup {e}
       /\ calls' = calls + 1
       /\ UNCHANGED released
       /\ UNCHANGED <<mvars, svars, ivars, cvars, tvars, vvars, hvars, evars>>

FfiHash ==
    /\ calls < MaxCalls
    /\ \E data \in {"null", "empty", "bytes"}, code \in AlgorithmCodes :
           ReturnResult("hash", HashOutcome(data, code))

\* a call that panics ends the process: it returns no result, and nothing is
\* called or freed after it
FfiMerkleTreeCreate ==
    /\ calls < MaxCalls
    /\ \E buf \in LeafBuffers, leaf_count \in 0..2, code \in AlgorithmCodes :
          /\ FitsAddressSpace(buf, usize_bits)
          /\ MerkleTreeCreateOutcome(buf, leaf_count, code, usize_bits) # FfiPanicOutcome
          /\ ReturnResult("merkle_tree_create",
                          MerkleTreeCreateOutcome(buf, leaf_count, code, usize_bits))

FfiCalculateTrustScore ==
    /\ calls < MaxCalls
    /\ \E input \in {"null", "bad_utf8", "bad_json", "ok"} :
           ReturnResult("calculate_trust_score", TrustScoreOutcome(input))

FfiMonteCarloSimulate ==
    /\ calls < MaxCalls
    /\ \E input \in {"null", "bad_utf8", "bad_json", "sim_err", "ok"} :
           ReturnResult("monte_carlo_simulate", MonteCarloOutcome(input))

FfiVerifySignature ==
    /\ calls < MaxCalls
    /\ \E any_null \in BOOLEAN, code \in AlgorithmCodes :
           ReturnResult("verify_signature", VerifySignatureOutcome(any_null, code))

\* dropping an allocation rebuilt with `size` bytes: exact when the size is the
\* allocation's, undefined behaviour (a sized deallocation with the wrong
\* layout) otherwise, which either frees the block or corrupts the allocator
ReleaseOutcomes(a, size) ==
    IF a.size = size
    THEN {[a EXCEPT !.state = "freed", !.releases = @ + 1]}
    ELSE {[a EXCEPT !.state = "freed", !.releases = @ + 1],
          [a EXCEPT !.state = "corrupt", !.releases = @ + 1]}

\* velocity_crypto_free_result(result) on a result the caller holds
FfiFreeResult ==
    \E e \in outstanding :
        LET env == (CHOOSE r \in {envelopes[i] : i \in 1..Len(envelopes)} :
                       r.ptr = e).fields
            frees_data == env.data # NULL /\ env.data_len # W(0)
            frees_message == env.error_message # NULL
        IN /\ \E d \in (IF frees_data
                        THEN ReleaseOutcomes(heap[env.data], env.data_len)
                        ELSE {NULL}) :
                 heap' = [i \in 1..Len(heap) |->
                            IF frees_data /\ i = env.data THEN d
                            ELSE IF frees_message /\ i = env.error_message
                            THEN [heap[i] EXCEPT !.state = "freed",
                                                 !.releases = @ + 1]
                            ELSE IF i = e
                            THEN [heap[i] EXCEPT !.state = "freed",
                                                 !.releases = @ + 1]
                            ELSE heap[i]]
           /\ outstanding' = outstanding \ {e}
           /\ released' = released \cup {e}
           /\ UNCHANGED <<envelopes, calls>>
           /\ UNCHANGED <<mvars, svars, ivars, cvars, tvars, vvars, hvars, evars>>

FfiNext ==
    \/ FfiHash
    \/ FfiMerkleTreeCreate
    \/ FfiCalculateTrustScore
    \/ FfiMonteCarloSimulate
    \/ FfiVerifySignature
    \/ FfiFreeResult


-----------------------------------------------------------------------------
(* The call scenario: one call of velocity_crypto_hash or of                *)
(* velocity_crypto_merkle_tree_create, on a 32-bit or a 64-bit target.      *)

NotCalled == [entry |-> "none"]

CallIdle ==
    /\ usize_bits = 64
    /\ lastcall = NotCalled

CallInit ==
    /\ usize_bits \in {32, 64}
    /\ lastcall = NotCalled

\* the fields of the result an outcome is returned as; nothing on a panic
Returned(outcome) ==
    CASE outcome.kind = "success" -> ResultSuccess(outcome.payload, 1, 1)
      [] outcome.kind = "error" -> ResultError(outcome.code, 1, 1)
      [] outcome.kind = "panic" -> [error_code |-> "none"]

\* velocity_crypto_hash(data, data_len, algorithm)
CallHash ==
    /\ lastcall = NotCalled
    /\ \E data \in {"null", "empty", "bytes"}, code \in AlgorithmCodes :
          lastcall' = [entry |-> "hash", data |-> data, code |-> code,
                       algorithm |-> IF data # "null" /\ HashAlgorithmOfCode(code).ok
                                     THEN HashAlgorithmOfCode(code).value
                                     ELSE "none",
                       result |-> Returned(HashOutcome(data, code))]
    /\ UNCHANGED usize_bits
    /\ UNCHANGED <<mvars, svars, fvars, ivars, cvars, tvars, vvars, hvars>>

\* velocity_crypto_merkle_tree_create(leaves_data, leaves_data_len, leaf_count,
\* algorithm)
CallMerkleTreeCreate ==
    /\ lastcall = NotCalled
    /\ \E buf \in LeafBuffers, leaf_count \in 0..2, code \in AlgorithmCodes :
          /\ FitsAddressSpace(buf, usize_bits)
          /\ LET did == MerkleTreeCreateRun(buf, leaf_count, code, usize_bits)
             IN lastcall' = [entry |-> "merkle_tree_create", buf |-> buf,
                             leaf_count |-> leaf_count, code |-> code,
                             algorithm |-> did.algorithm, leaves |-> did.leaves,
                             read_end |-> did.read_end,
                             result |-> Returned(did.outcome)]
    /\ UNCHANGED usize_bits
    /\ UNCHANGED <<mvars, svars, fvars, ivars, cvars, tvars, vvars, hvars>>

CallNext ==
    \/ CallHash
    \/ CallMerkleTreeCreate

-----------------------------------------------------------------------------
(* monte_carlo.rs *)

\* f64 quantities are kept in fixed point, as integers counting hundredths
Scale == 10 * 10

FMul(a, b) == (a * b) \div Scale

FClamp01(a) == IF a < 0 THEN 0 ELSE IF a > Scale THEN Scale ELSE a

\* the integer square root
ISqrt(x) == CHOOSE r \in 0..(x + 1) : r * r <= x /\ x < (r + 1) * (r + 1)

\* A u64 is four 16-bit limbs, least significant first.
U64Zero == <<0, 0, 0, 0>>

U64Max == <<LimbBase - 1, LimbBase - 1, LimbBase - 1, LimbBase - 1>>

RECURSIVE AddCarry(_, _, _)
AddCarry(x, k, carry) ==
    IF k > Len(x) THEN x
    ELSE AddCarry([x EXCEPT ![k] = (x[k] + carry) % LimbBase], k + 1,
                  (x[k] + carry) \div LimbBase)

\* u64::wrapping_add(x, i) for i below 2^16
WrappingAdd(x, i) == AddCarry(x, 1, i)

\* Xoshiro256PlusPlus::seed_from_u64: a generator is its seed and the number of
\* outputs drawn from it
SeedFromU64(seed) == [seed |-> seed, drawn |-> 0]

\* the next output of a generator as a fraction in [0, 1): a fixed function of
\* the seed and the position in the stream
NextUnit(rng) ==
    (7 * rng.seed[1] + 11 * rng.seed[2] + 13 * rng.seed[3] + 17 * rng.seed[4]
       + 37 * rng.drawn + 3 * rng.drawn * rng.drawn) % Scale

Advance(rng) == [rng EXCEPT !.drawn = @ + 1]

Sampled(v, rng) == [status |-> "ok", value |-> v, rng |-> rng]

Failed(kind) == [status |-> "err", err |-> kind]

Panicked == [status |-> "panic"]

\* a standard normal deviate for the uniform output u, on a five-point grid
NormalDeviate(u) ==
    IF u < 5 THEN -2 ELSE IF u < 30 THEN -1 ELSE IF u < 70 THEN 0
    ELSE IF u < 95 THEN 1 ELSE 2

\* MonteCarloEngine::sample_distribution
SampleDistribution(dist, rng) ==
    LET u == NextUnit(rng) IN
    CASE dist.kind = "Normal" ->
            IF dist.std_dev < 0 THEN Failed("InvalidInput")
            ELSE Sampled(dist.mean + dist.std_dev * NormalDeviate(u), Advance(rng))
      [] dist.kind = "Uniform" ->
            IF dist.min >= dist.max THEN Panicked
            ELSE Sampled(dist.min + FMul(dist.max - dist.min, u), Advance(rng))
      [] dist.kind = "Beta" ->
            IF dist.alpha <= 0 \/ dist.beta <= 0 THEN Failed("InvalidInput")
            ELSE Sampled(u, Advance(rng))
      [] dist.kind = "Triangular" ->
            IF dist.max > dist.min
                  /\ u * (dist.max - dist.min) < (dist.mode - dist.min) * Scale
            THEN Sampled(dist.min + ISqrt((dist.max - dist.min)
                                          * (dist.mode - dist.min) * u) \div 10,
                         Advance(rng))
            ELSE Sampled(dist.max - ISqrt((dist.max - dist.min)
                                          * (dist.max - dist.mode) * (Scale - u)) \div 10,
                         Advance(rng))
      [] dist.kind = "Empirical" ->
            IF dist.values = <<>> THEN Failed("InvalidInput")
            ELSE Sampled(dist.values[(u * Len(dist.values)) \div Scale + 1],
                         Advance(rng))

\* Rng::gen_bool(p): panics for p outside [0, 1]
GenBool(p, rng) ==
    IF p < 0 \/ p > Scale THEN Panicked
    ELSE IF p = Scale THEN Sampled(TRUE, rng)
    ELSE Sampled(NextUnit(rng) < p, Advance(rng))

\* the inner loop of simulate_single_iteration over correlation_factors
RECURSIVE ApplyCorrelations(_, _, _, _, _)
ApplyCorrelations(corrs, k, adjusted_value, market_volatility, regulatory_stringency) ==
    IF k > Len(corrs) THEN adjusted_value
    ELSE ApplyCorrelations(corrs, k + 1,
             IF corrs[k][1] = "market_volatility"
             THEN adjusted_value + FMul(market_volatility, corrs[k][2])
             ELSE IF corrs[k][1] = "regulatory_stringency"
             THEN adjusted_value + FMul(regulatory_stringency, corrs[k][2])
             ELSE adjusted_value,
             market_volatility, regulatory_stringency)

\* the loop of simulate_single_iteration over compliance_factors, from factor k
RECURSIVE SampleFactors(_, _, _, _, _, _, _)
RECURSIVE FactorSampled(_, _, _, _, _, _, _)
SampleFactors(factors, k, rng, market_volatility, regulatory_stringency, factor_values, compliance_score) ==
    IF k > Len(factors)
    THEN [status |-> "ok", factor_values |-> factor_values,
          compliance_score |-> compliance_score, rng |-> rng]
    ELSE FactorSampled(factors, k, SampleDistribution(factors[k].distribution, rng),
                       market_volatility, regulatory_stringency,
                       factor_values, compliance_score)

\* the body of that loop once factor k is sampled
FactorSampled(factors, k, base_sample, market_volatility, regulatory_stringency, factor_values, compliance_score) ==
    IF base_sample.status # "ok" THEN base_sample
    ELSE LET adjusted_value ==
                 FClamp01(ApplyCorrelations(factors[k].correlation_factors, 1,
                             base_sample.value, market_volatility,
                             regulatory_stringency))
         IN SampleFactors(factors, k + 1, base_sample.rng,
                market_volatility, regulatory_stringency,
                Append(factor_values,
                       [name |-> factors[k].name, value |-> adjusted_value,
                        weight |-> factors[k].weight]),
                compliance_score + FMul(adjusted_value, factors[k].weight))

\* the six samples simulate_single_iteration takes first, in its order
EnvironmentOf(sc) ==
    <<sc.market_conditions.volatility,
      sc.market_conditions.growth_rate,
      sc.market_conditions.competition_intensity,
      sc.regulatory_environment.stringency,
      sc.regulatory_environment.change_frequency,
      sc.regulatory_environment.enforcement_probability>>

\* sample_distribution(..)? on each of dists from k on, one generator threaded through
RECURSIVE SampleEach(_, _, _, _)
RECURSIVE SampleNext(_, _, _, _)
SampleEach(dists, k, rng, values) ==
    IF k > Len(dists) THEN [status |-> "ok", values |-> values, rng |-> rng]
    ELSE SampleNext(dists, k, SampleDistribution(dists[k], rng), values)

SampleNext(dists, k, sample, values) ==
    IF sample.status # "ok" THEN sample
    ELSE SampleEach(dists, k + 1, sample.rng, Append(values, sample.value))

\* market_impact * regulatory_impact applied to the weighted factor sum
Impacted(env, compliance_score) ==
    FMul(compliance_score,
         FMul(Scale + FMul(env[2] - 50, 20) - FMul(env[1], 10),
              Scale - FMul(env[4] - 50, 30) - FMul(env[5], 5)))

\* the end of simulate_single_iteration: the enforcement draw and the result
IterationResult(iteration_id, factors, compliance_score, polygon_verified, enforcement_action) ==
    IF enforcement_action.status # "ok" THEN enforcement_action
    ELSE [status |-> "ok",
          value |-> [iteration_id |-> iteration_id,
                     compliance_score |-> compliance_score,
                     risk_score |-> Scale - FClamp01(compliance_score),
                     factor_values |-> factors.factor_values,
                     polygon_verified |-> polygon_verified.value,
                     enforcement_action |-> enforcement_action.value],
          rng |-> enforcement_action.rng]

\* simulate_single_iteration from the Polygon boost on
Boosted(iteration_id, env, factors, compliance_score, polygon_verified) ==
    IterationResult(iteration_id, factors, compliance_score, polygon_verified,
        GenBool(FMul(env[6], Scale - FClamp01(compliance_score)),
                polygon_verified.rng))

\* simulate_single_iteration from the Polygon draw on
AfterPolygonDraw(cfg, iteration_id, env, factors, impacted, polygon_verified) ==
    IF polygon_verified.status # "ok" THEN polygon_verified
    ELSE Boosted(iteration_id, env, factors,
                 IF polygon_verified.value /\ cfg.enable_polygon_verification
                 THEN FMul(impacted, 115) ELSE impacted,
                 polygon_verified)

\* simulate_single_iteration from the factor loop's end on
AfterFactors(cfg, sc, iteration_id, env, factors) ==
    IF factors.status # "ok" THEN factors
    ELSE AfterPolygonDraw(cfg, iteration_id, env, factors,
                          Impacted(env, factors.compliance_score),
                          GenBool(sc.polygon_verification_rate, factors.rng))

\* simulate_single_iteration from the factor loop on
AfterEnvironment(cfg, sc, iteration_id, env) ==
    IF env.status # "ok" THEN env
    ELSE AfterFactors(cfg, sc, iteration_id, env.values,
                      SampleFactors(sc.compliance_factors, 1, env.rng,
                                    env.values[1], env.values[4], <<>>, 0))

\* MonteCarloEngine::simulate_single_iteration
SimulateSingleIteration(cfg, sc, rng, iteration_id) ==
    AfterEnvironment(cfg, sc, iteration_id,
                     SampleEach(EnvironmentOf(sc), 1, rng, <<>>))

\* MonteCarloEngine::create_rng
CreateRng(cfg, fresh) ==
    IF cfg.seed.some THEN SeedFromU64(cfg.seed.value) ELSE SeedFromU64(fresh)

\* the loop of run_sequential_simulation from trial i (0-based)
RECURSIVE SequentialTrials(_, _, _, _, _)
SequentialTrials(cfg, sc, rng, i, done) ==
    IF i >= cfg.iterations THEN [status |-> "ok", results |-> done]
    ELSE LET iteration == SimulateSingleIteration(cfg, sc, rng, i)
         IN IF iteration.status # "ok" THEN iteration
            ELSE SequentialTrials(cfg, sc, iteration.rng, i + 1,
                                  Append(done, iteration.value))

\* MonteCarloEngine::run_sequential_simulation
RunSequentialSimulation(cfg, sc, fresh) ==
    SequentialTrials(cfg, sc, CreateRng(cfg, fresh), 0, <<>>)

\* trial i of run_parallel_simulation
ParallelTrial(cfg, sc, base_seed, i) ==
    SimulateSingleIteration(cfg, sc, SeedFromU64(WrappingAdd(base_seed, i)), i)

\* MonteCarloEngine::run_parallel_simulation, the workers finishing in `order`:
\* a panicking trial unwinds through the pool; otherwise collect returns an
\* error of a failed trial, or the values by trial index
RunParallelSimulation(cfg, sc, fresh, order) ==
    LET base_seed == IF cfg.seed.some THEN cfg.seed.value ELSE fresh
        n == cfg.iterations
        completed == [j \in 1..n |->
                         [idx |-> order[j],
                          value |-> ParallelTrial(cfg, sc, base_seed, order[j] - 1)]]
    IN IF \E j \in 1..n : completed[j].value.status = "panic" THEN Panicked
       ELSE IF \E j \in 1..n : completed[j].value.status = "err"
       THEN completed[CHOOSE j \in 1..n :
                         /\ completed[j].value.status = "err"
                         /\ \A h \in 1..(j - 1) : completed[h].value.status # "err"].value
       ELSE [status |-> "ok",
             results |-> Collect([j \in 1..n |->
                            [idx |-> completed[j].idx,
                             value |-> completed[j].value.value]])]

RECURSIVE SumOf(_, _)
SumOf(xs, k) == IF k > Len(xs) THEN 0 ELSE xs[k] + SumOf(xs, k + 1)

\* `(x * n as f64) as usize` for x in hundredths
IndexAt(x, n) == IF x * n < 0 THEN 0 ELSE (x * n) \div Scale

\* MonteCarloEngine::analyze_results, on the aggregates that are plain sums and
\* counts, with the index computation of calculate_confidence_interval
AnalyzeResults(cfg, sc, rs) ==
    IF rs = <<>> THEN Failed("InvalidInput")
    ELSE IF \E c \in 1..Len(cfg.confidence_intervals) :
               IndexAt((Scale - cfg.confidence_intervals[c]) \div 2, Len(rs)) >= Len(rs)
    THEN Panicked
    ELSE [status |-> "ok",
          value |-> [
             scenario_name |-> sc.name,
             iterations |-> Len(rs),
             compliance_sum |-> SumOf([k \in 1..Len(rs) |-> rs[k].compliance_score], 1),
             risk_sum |-> SumOf([k \in 1..Len(rs) |-> rs[k].risk_score], 1),
             enforcement_count |-> Cardinality({k \in 1..Len(rs) : rs[k].enforcement_action}),
             polygon_count |-> Cardinality({k \in 1..Len(rs) : rs[k].polygon_verified})]]

\* MonteCarloEngine::simulate_compliance_risk: the trial list and the outcome
SimulateComplianceRisk(cfg, sc, fresh, order) ==
    LET trials == IF cfg.iterations > cfg.parallel_threshold
                  THEN RunParallelSimulation(cfg, sc, fresh, order)
                  ELSE RunSequentialSimulation(cfg, sc, fresh)
    IN IF trials.status # "ok"
       THEN [trials |-> <<>>, outcome |-> trials]
       ELSE [trials |-> trials.results, outcome |-> AnalyzeResults(cfg, sc, trials.results)]

-----------------------------------------------------------------------------
(* The Monte Carlo scenario: two runs of one engine on one scenario *)

Normal(mean, std_dev) == [kind |-> "Normal", mean |-> mean, std_dev |-> std_dev]

Uniform(min, max) == [kind |-> "Uniform", min |-> min, max |-> max]

Beta(alpha, beta) == [kind |-> "Beta", alpha |-> alpha, beta |-> beta]

Triangular(min, mode, max) ==
    [kind |-> "Triangular", min |-> min, mode |-> mode, max |-> max]

Empirical(values) == [kind |-> "Empirical", values |-> values]

Factor(name, distribution, weight, correlation_factors) ==
    [name |-> name, distribution |-> distribution, weight |-> weight,
     correlation_factors |-> correlation_factors]

\* a scenario all of whose parameters are in range
BaseScenario ==
    [name |-> "base",
     compliance_factors |->
        <<Factor("policy", Beta(200, 200), 60, <<<<"market_volatility", -10>>>>),
          Factor("audit", Triangular(0, 50, 100), 40, <<>>)>>,
     market_conditions |->
        [volatility |-> Uniform(0, 50), growth_rate |-> Normal(50, 10),
         competition_intensity |-> Empirical(<<20, 40, 60>>)],
     regulatory_environment |->
        [stringency |-> Uniform(20, 80), change_frequency |-> Beta(100, 300),
         enforcement_probability |-> Uniform(0, 100)],
     polygon_verification_rate |-> 50]

Scenarios ==
    {BaseScenario,
     [BaseScenario EXCEPT !.compliance_factors = <<>>],
     [BaseScenario EXCEPT !.polygon_verification_rate = 0],
     [BaseScenario EXCEPT !.polygon_verification_rate = Scale],
     [BaseScenario EXCEPT !.polygon_verification_rate = 150],
     [BaseScenario EXCEPT !.polygon_verification_rate = -10],
     [BaseScenario EXCEPT !.regulatory_environment.enforcement_probability =
                              Empirical(<<250>>)],
     [BaseScenario EXCEPT !.regulatory_environment.enforcement_probability =
                              Normal(-50, 0)],
     [BaseScenario EXCEPT !.market_conditions.volatility = Uniform(50, 50)],
     [BaseScenario EXCEPT !.market_conditions.volatility = Uniform(60, 40)],
     [BaseScenario EXCEPT !.market_conditions.growth_rate = Empirical(<<>>)],
     [BaseScenario EXCEPT !.market_conditions.growth_rate = Normal(50, -10)],
     [BaseScenario EXCEPT !.compliance_factors[2].distribution = Beta(0, 100)]}

Seeds == {U64Zero, <<41, 0, 0, 0>>, U64Max}

NoSeed == [some |-> FALSE]

SomeSeed(s) == [some |-> TRUE, value |-> s]

Configs ==
    [iterations : 0..MaxIterations,
     confidence_intervals : {<<95, 99>>},
     parallel_threshold : {0, 1, 10 * Scale},
     seed : {NoSeed} \cup {SomeSeed(s) : s \in Seeds},
     enable_polygon_verification : BOOLEAN]

DefaultConfig ==
    [iterations |-> 0, confidence_intervals |-> <<95, 99>>,
     parallel_threshold |-> 10 * Scale, seed |-> NoSeed,
     enable_polygon_verification |-> TRUE]

McIdle ==
    /\ cpc = "idle"
    /\ config = DefaultConfig
    /\ scenario = BaseScenario
    /\ entropy = <<>>
    /\ runs = <<>>

\* MonteCarloEngine::new(config), and what the entropy source will yield
McInit ==
    /\ cpc = "ready"
    /\ config \in Configs
    /\ scenario \in Scenarios
    /\ entropy \in IF config.seed.some THEN {<<U64Zero, U64Zero>>}
                   ELSE {<<U64Zero, U64Zero>>, <<U64Zero, U64Max>>}
    /\ runs = <<>>

\* simulate_compliance_risk on the sequential path
McSimulateSequential ==
    /\ cpc = "ready"
    /\ Len(runs) < 2
    /\ ~(config.iterations > config.parallel_threshold)
    /\ runs' = Append(runs, [path |-> "sequential", order |-> <<>>,
                             run |-> SimulateComplianceRisk(config, scenario,
                                         entropy[Len(runs) + 1], <<>>)])
    /\ UNCHANGED <<cpc, config, scenario, entropy>>
    /\ UNCHANGED <<mvars, svars, fvars, ivars, tvars, vvars, hvars, evars>>

\* simulate_compliance_risk on the parallel path
McSimulateParallel ==
    /\ cpc = "ready"
    /\ Len(runs) < 2
    /\ config.iterations > config.parallel_threshold
    /\ \E kind \in ScheduleKinds :
          runs' = Append(runs, [path |-> "parallel",
                                order |-> ScheduleOf(kind, config.iterations),
                                run |-> SimulateComplianceRisk(config, scenario,
                                            entropy[Len(runs) + 1],
                                            ScheduleOf(kind, config.iterations))])
    /\ UNCHANGED <<cpc, config, scenario, entropy>>
    /\ UNCHANGED <<mvars, svars, fvars, ivars, tvars, vvars, hvars, evars>>

McNext ==
    \/ McSimulateSequential
    \/ McSimulateParallel


-----------------------------------------------------------------------------
(* trust_calculator.rs *)

\* f64 quantities are in hundredths, as above: a product or quotient is rounded
\* down to the grid, as an f64 operation is rounded to the nearest double.
FDiv(a, b) == (a * Scale) \div b

TrustActivityType ==
    {"ComplianceVerification", "ExpertValidation", "RegulatoryApproval",
     "CrossPlatformAttestation", "ContinuousMonitoring", "AuditCompletion",
     "PolygonVerification"}

\* TrustCalculatorConfig::default().activity_weights
DefaultWeights ==
    [t \in TrustActivityType |->
        CASE t = "ComplianceVerification" -> 25
          [] t = "ExpertValidation" -> 20
          [] t = "RegulatoryApproval" -> 30
          [] t = "CrossPlatformAttestation" -> 10
          [] t = "ContinuousMonitoring" -> 5
          [] t = "AuditCompletion" -> 15
          [] t = "PolygonVerification" -> 35]

\* TrustCalculatorConfig::default(), with the parallel threshold given
TrustConfig(parallel_threshold) ==
    [activity_weights |-> DefaultWeights,
     time_decay_factor |-> 95,
     reputation_multiplier |-> 120,
     confidence_threshold |-> 70,
     polygon_verification_boost |-> 150,
     parallel_threshold |-> parallel_threshold]

\* the width of the clock and of TrustActivity.timestamp, counted in days
TimeModulus == 2 ^ 20

\* current_time - activity.timestamp on unsigned integers: the difference; when
\* the timestamp is later than the clock, a panic in a build that checks
\* overflow and the wrapped difference in one that does not
TimeDiff(current_time, timestamp, checks) ==
    IF timestamp <= current_time
    THEN [status |-> "ok", wrapped |-> FALSE, value |-> current_time - timestamp]
    ELSE IF checks THEN [status |-> "panic"]
    ELSE [status |-> "ok", wrapped |-> TRUE,
          value |-> (current_time - timestamp) % TimeModulus]

\* base.powf(days) for 0 < base < 1 and whole days; it underflows to zero
RECURSIVE PowF(_, _, _)
PowF(base, days, acc) ==
    IF days = 0 \/ acc = 0 THEN acc ELSE PowF(base, days - 1, FMul(acc, base))

ParallelFinalWeightNoPenalty(cfg, activity, time_diff) ==
    FMul(FMul(FMul(FMul(cfg.activity_weights[activity.activity_type],
                        PowF(cfg.time_decay_factor, time_diff, Scale)),
                   activity.confidence),
              Scale + FMul(activity.verifier_reputation - 50, cfg.reputation_multiplier)),
         IF activity.polygon_tx_hash THEN cfg.polygon_verification_boost ELSE Scale)

\* final_weight of the parallel closure, from base_weight to polygon_factor
ParallelFinalWeight(cfg, activity, time_diff) ==
    FMul(FMul(FMul(FMul(cfg.activity_weights[activity.activity_type],
                        PowF(cfg.time_decay_factor, time_diff, Scale)),
                   IF activity.confidence >= cfg.confidence_threshold
                   THEN activity.confidence ELSE FMul(activity.confidence, 50)),
              Scale + FMul(activity.verifier_reputation - 50, cfg.reputation_multiplier)),
         IF activity.polygon_tx_hash THEN cfg.polygon_verification_boost ELSE Scale)

\* final_weight of the sequential loop body
SequentialFinalWeight(cfg, activity, time_diff) ==
    FMul(FMul(FMul(FMul(cfg.activity_weights[activity.activity_type],
                        PowF(cfg.time_decay_factor, time_diff, Scale)),
                   IF activity.confidence >= cfg.confidence_threshold
                   THEN activity.confidence ELSE FMul(activity.confidence, 50)),
              Scale + FMul(activity.verifier_reputation - 50, cfg.reputation_multiplier)),
         IF activity.polygon_tx_hash THEN cfg.polygon_verification_boost ELSE Scale)

\* one activity's (contribution, final_weight, ...) given its time difference
Term(activity, diff, final_weight) ==
    IF diff.status # "ok" THEN diff
    ELSE [status |-> "ok", wrapped |-> diff.wrapped,
          contribution |-> FMul(activity.value, final_weight),
          weight |-> final_weight,
          is_polygon_verified |-> activity.polygon_tx_hash,
          activity_type |-> activity.activity_type]

\* the body of the loop of calculate_sequential
SequentialTerm(cfg, activity, current_time, checks) ==
    Term(activity, TimeDiff(current_time, activity.timestamp, checks),
         SequentialFinalWeight(cfg, activity,
             TimeDiff(current_time, activity.timestamp, FALSE).value))

\* the closure of calculate_parallel
ParallelTerm(cfg, activity, current_time, checks) ==
    Term(activity, TimeDiff(current_time, activity.timestamp, checks),
         ParallelFinalWeight(cfg, activity,
             TimeDiff(current_time, activity.timestamp, FALSE).value))

NormalizeUnclamped(raw_score) == raw_score * 100

\* (raw_score * 100.0).min(100.0).max(0.0)
Normalize(raw_score) ==
    IF raw_score >= Scale THEN 100 * Scale
    ELSE IF raw_score <= 0 THEN 0
    ELSE raw_score * 100

\* TrustCalculator::calculate_confidence
CalculateConfidence(acts) ==
    IF acts = <<>> THEN 0
    ELSE LET n == Len(acts)
             avg_confidence == SumOf([k \in 1..n |-> acts[k].confidence], 1) \div n
             avg_reputation ==
                 SumOf([k \in 1..n |-> acts[k].verifier_reputation], 1) \div n
             polygon_ratio ==
                 FDiv(Cardinality({k \in 1..n : acts[k].polygon_tx_hash}), n)
             c == FMul(avg_confidence, 40) + FMul(avg_reputation, 30)
                      + FMul(polygon_ratio, 30)
         IN IF c > Scale THEN Scale ELSE c

\* TrustCalculator::calculate_trust_hash
CalculateTrustHash(acts, score) ==
    Hash("Blake3",
         <<score>> \o [k \in 1..Len(acts) |->
                          <<acts[k].activity_type, acts[k].timestamp, acts[k].value,
                            acts[k].confidence, acts[k].polygon_tx_hash>>])

\* the aggregation both paths end with, over the per-activity terms in order
AggregateTerms(acts, terms, current_time) ==
    IF \E k \in 1..Len(terms) : terms[k].status = "panic" THEN [status |-> "panic"]
    ELSE LET n == Len(terms)
             weighted_sum == SumOf([k \in 1..n |-> terms[k].contribution], 1)
             total_weight == SumOf([k \in 1..n |-> terms[k].weight], 1)
             raw_score == IF total_weight > 0 THEN FDiv(weighted_sum, total_weight)
                          ELSE 0
             normalized_score == Normalize(raw_score)
         IN [status |-> "ok",
             wrapped |-> \E k \in 1..n : terms[k].wrapped,
             value |->
               [score |-> normalized_score,
                confidence |-> CalculateConfidence(acts),
                total_activities |-> Len(acts),
                polygon_verified_activities |->
                    Cardinality({k \in 1..n : terms[k].is_polygon_verified}),
                activity_breakdown |->
                    [t \in {terms[k].activity_type : k \in 1..n} |->
                        SumOf([k \in 1..n |->
                                  IF terms[k].activity_type = t
                                  THEN terms[k].contribution ELSE 0], 1)],
                calculation_timestamp |-> current_time,
                trust_hash |-> CalculateTrustHash(acts, normalized_score)]]

\* TrustCalculator::calculate_sequential
CalculateSequential(cfg, acts, current_time, checks) ==
    AggregateTerms(acts,
               [k \in 1..Len(acts) |-> SequentialTerm(cfg, acts[k], current_time, checks)],
               current_time)

\* TrustCalculator::calculate_parallel, the workers finishing in `order`
CalculateParallel(cfg, acts, current_time, checks, order) ==
    AggregateTerms(acts,
               Collect([j \in 1..Len(acts) |->
                   [idx |-> order[j],
                    value |-> ParallelTerm(cfg, acts[order[j]], current_time, checks)]]),
               current_time)

\* TrustScore::default()
DefaultTrustScore ==
    [score |-> 0, confidence |-> 0, total_activities |-> 0,
     polygon_verified_activities |-> 0, activity_breakdown |-> <<>>,
     calculation_timestamp |-> 0, trust_hash |-> <<>>]

\* TrustCalculator::calculate_trust_score
CalculateTrustScore(cfg, acts, current_time, checks, order) ==
    IF acts = <<>>
    THEN [status |-> "ok", wrapped |-> FALSE, value |-> DefaultTrustScore]
    ELSE IF Len(acts) > cfg.parallel_threshold
    THEN CalculateParallel(cfg, acts, current_time, checks, order)
    ELSE CalculateSequential(cfg, acts, current_time, checks)

BlendEven(current_value, new_value) == FMul(current_value, 50) + FMul(new_value, 50)

\* current * weight_factor + new * (1.0 - weight_factor), weight_factor = 0.9
Blend(current_value, new_value) ==
    FMul(current_value, 90) + FMul(new_value, Scale - 90)

\* the merge of the breakdowns in update_trust_score
UpdatedBreakdown(old, new) ==
    [t \in DOMAIN old \cup DOMAIN new |->
        (IF t \in DOMAIN old THEN old[t] ELSE 0)
          + (IF t \in DOMAIN new THEN FMul(new[t], Scale - 90) ELSE 0)]

\* TrustCalculator::update_trust_score
UpdateTrustScore(cfg, current_score, new_activities, current_time, checks, order) ==
    LET new_score == CalculateTrustScore(cfg, new_activities, current_time, checks, order)
    IN IF new_score.status # "ok" THEN new_score
       ELSE [status |-> "ok", wrapped |-> new_score.wrapped,
             value |->
               [score |-> Blend(current_score.score, new_score.value.score),
                confidence |->
                    Blend(current_score.confidence, new_score.value.confidence),
                total_activities |->
                    current_score.total_activities + Len(new_activities),
                polygon_verified_activities |->
                    current_score.polygon_verified_activities
                        + new_score.value.polygon_verified_activities,
                activity_breakdown |->
                    UpdatedBreakdown(current_score.activity_breakdown,
                                     new_score.value.activity_breakdown),
                calculation_timestamp |-> new_score.value.calculation_timestamp,
                trust_hash |->
                    CalculateTrustHash(new_activities,
                        Blend(current_score.score, new_score.value.score))]]

-----------------------------------------------------------------------------
(* The trust scenario: score a list, then score it again with one activity  *)
(* improved, or blend the score of a second list into a current score.     *)

Today == 10

Activity(activity_type, timestamp, value, confidence, verifier_reputation, polygon) ==
    [activity_type |-> activity_type, timestamp |-> timestamp, value |-> value,
     confidence |-> confidence, verifier_reputation |-> verifier_reputation,
     polygon_tx_hash |-> polygon]

\* activities with every field in range, stamped with the clock reading
PlainActivities ==
    {Activity("ComplianceVerification", Today, v, c, r, p) :
        v \in {0, Scale}, c \in {50, 90}, r \in {20}, p \in BOOLEAN}

OtherActivities ==
    {Activity("AuditCompletion", Today, 95, 90, 80, TRUE),
     Activity("ContinuousMonitoring", Today - 3, 80, 90, 80, FALSE),
     Activity("RegulatoryApproval", 0, 60, 70, 50, FALSE),
     \* stamped later than the clock
     Activity("ExpertValidation", Today + 1, 90, 90, 80, FALSE),
     \* value, confidence or reputation outside [0, 1]
     Activity("ExpertValidation", Today, 150, 90, 80, FALSE),
     Activity("ExpertValidation", Today, -50, 90, 80, TRUE),
     Activity("ExpertValidation", Today, 90, 150, 150, FALSE),
     Activity("ExpertValidation", Today, 90, -50, -100, FALSE)}

ActivityPool == PlainActivities \cup OtherActivities

ActivityLists == UNION {[1..n -> ActivityPool] : n \in 0..MaxActivities}

\* the TrustScore values handed to update_trust_score
CurrentScores ==
    {[DefaultTrustScore EXCEPT !.score = sc, !.confidence = cf,
                               !.total_activities = 1,
                               !.activity_breakdown =
                                   [t \in {"ComplianceVerification"} |-> 20]] :
        sc \in {0, 4999, 100 * Scale}, cf \in {55}}

NoOutcome == [status |-> "none"]

TrustIdle ==
    /\ tpc = "idle"
    /\ tconfig = TrustConfig(100)
    /\ overflow_checks = FALSE
    /\ now = 0
    /\ activities = <<>>
    /\ tresult = NoOutcome
    /\ activities2 = <<>>
    /\ current = DefaultTrustScore
    /\ tresult2 = NoOutcome

\* TrustCalculator::new(config)
TrustInit ==
    /\ tpc = "start"
    /\ tconfig \in {TrustConfig(0), TrustConfig(100)}
    /\ overflow_checks \in BOOLEAN
    /\ now = Today
    /\ activities \in ActivityLists
    /\ tresult = NoOutcome
    /\ activities2 = <<>>
    /\ current = DefaultTrustScore
    /\ tresult2 = NoOutcome

\* calculate_trust_score(&activities)
TrustCalculate ==
    /\ tpc = "start"
    /\ \E order \in Schedules(Len(activities)) :
          tresult' = CalculateTrustScore(tconfig, activities, now, overflow_checks, order)
    /\ tpc' = "scored"
    /\ UNCHANGED <<tconfig, overflow_checks, now, activities, activities2, current, tresult2>>
    /\ UNCHANGED <<mvars, svars, fvars, ivars, cvars, vvars, hvars, evars>>

\* the list with activity i improved in one respect
Improvements(acts) ==
    {[acts EXCEPT ![i].confidence = c] :
        i \in 1..Len(acts), c \in {90}} \cup
    {[acts EXCEPT ![i].verifier_reputation = r] :
        i \in 1..Len(acts), r \in {80}} \cup
    {[acts EXCEPT ![i].polygon_tx_hash = TRUE] : i \in 1..Len(acts)}

IsImprovement(old, new) ==
    /\ Len(old) = Len(new)
    /\ \A i \in 1..Len(old) :
          /\ new[i].confidence >= old[i].confidence
          /\ new[i].verifier_reputation >= old[i].verifier_reputation
          /\ old[i].polygon_tx_hash => new[i].polygon_tx_hash

\* calculate_trust_score on the list with one activity improved, the clock held
TrustCalculateImproved ==
    /\ tpc = "scored"
    /\ \E better \in {b \in Improvements(activities) :
                         b # activities /\ IsImprovement(activities, b)} :
          /\ activities2' = better
          /\ \E order \in Schedules(Len(better)) :
                tresult2' = CalculateTrustScore(tconfig, better, now,
                                                overflow_checks, order)
    /\ tpc' = "improved"
    /\ UNCHANGED <<tconfig, overflow_checks, now, activities, tresult, current>>
    /\ UNCHANGED <<mvars, svars, fvars, ivars, cvars, vvars, hvars, evars>>

\* update_trust_score(&current, &activities)
TrustUpdate ==
    /\ tpc = "scored"
    /\ \E cur \in CurrentScores \cup
                  (IF tresult.status = "ok" THEN {tresult.value} ELSE {}) :
          /\ current' = cur
          /\ \E order \in Schedules(Len(activities)) :
                tresult2' = UpdateTrustScore(tconfig, cur, activities, now,
                                             overflow_checks, order)
    /\ activities2' = activities
    /\ tpc' = "updated"
    /\ UNCHANGED <<tconfig, overflow_checks, now, activities, tresult>>
    /\ UNCHANGED <<mvars, svars, fvars, ivars, cvars, vvars, hvars, evars>>

TrustNext ==
    \/ TrustCalculate
    \/ TrustCalculateImproved
    \/ TrustUpdate


-----------------------------------------------------------------------------
(* The proof scenario: a caller builds MerkleProof values by hand and has  *)
(* them verified against a tree, one at a time and as a batch.             *)

\* verify_proofs_batch, the workers finishing in `order`; a panic in a worker
\* is resumed in the caller
VerifyProofsBatch(t, proofs, order) ==
    LET outcomes ==
            Collect([j \in 1..Len(proofs) |->
                [idx |-> order[j],
                 value |->
                    LET computed_root ==
                            ComputeRootFromProof(t.algorithm, proofs[order[j]])
                    IN IF computed_root.ok
                       THEN [ok |-> TRUE, value |-> computed_root.value = t.root]
                       ELSE IF computed_root.err = "panic" THEN computed_root
                       ELSE [ok |-> TRUE, value |-> FALSE]]])
    IN IF \E k \in 1..Len(proofs) : ~outcomes[k].ok
       THEN Err("panic")
       ELSE [ok |-> TRUE, value |-> [k \in 1..Len(proofs) |-> outcomes[k].value]]

ProofTreeLeaves == UNION {[1..n -> LeafValues] : n \in 1..(MaxProofLen + 2)}

\* a byte string that is no node of the tree's upper levels
ForgedNode == <<Byte(0)>>

AllButLast(s) == SubSeq(s, 1, Len(s) - 1)

\* the proofs of the tree's leaves, each as generated and altered field by
\* field, or started one level up at the leaf's parent
AlteredProofs(t) ==
    UNION {LET g == GenerateProof(t, i)
           IN {g,
               [g EXCEPT !.leaf = ForgedNode],
               [g EXCEPT !.leaf_index = LeafCount(t) + 1],
               [g EXCEPT !.leaf_index = (i + 1) % LeafCount(t)],
               IF Depth(t) >= 2
               THEN [g EXCEPT !.leaf = t.levels[2][(i \div 2) + 1],
                              !.siblings = Tail(@), !.directions = Tail(@)]
               ELSE g,
               [g EXCEPT !.directions = AllButLast(@)],
               [g EXCEPT !.directions = Append(@, FALSE)],
               [g EXCEPT !.siblings = AllButLast(@)],
               [g EXCEPT !.siblings = Append(@, ForgedNode)],
               [g EXCEPT !.siblings = AllButLast(@), !.directions = AllButLast(@)],
               [g EXCEPT !.siblings = Append(@, ForgedNode),
                         !.directions = Append(@, TRUE)]} :
           i \in 0..(LeafCount(t) - 1)}

\* proofs written from nothing, the two lists of any lengths
FreeProofs ==
    [ok : {TRUE}, leaf : LeafValues, leaf_index : {0, 2 ^ MaxProofLen},
     siblings : UNION {[1..n -> {ForgedNode}] : n \in 0..MaxProofLen},
     directions : UNION {[1..n -> BOOLEAN] : n \in 0..MaxProofLen}]

CallerProofs(t) == AlteredProofs(t) \cup FreeProofs

ProofIdle ==
    /\ vpc = "idle"
    /\ vtree = NoValue
    /\ vproofs = <<>>
    /\ vsingle = NoValue
    /\ vbatch = NoValue

\* MerkleTree::new(leaves, algorithm) on a non-empty list
ProofInit ==
    /\ vpc = "built"
    /\ vtree \in {New(lvs, alg) : lvs \in ProofTreeLeaves, alg \in TreeAlgorithms}
    /\ vproofs = <<>>
    /\ vsingle = NoValue
    /\ vbatch = NoValue

\* tree.verify_proof(&proof)
ProofVerify ==
    /\ vpc = "built"
    /\ \E p \in CallerProofs(vtree) :
          /\ vproofs' = <<p>>
          /\ vsingle' = VerifyProof(vtree, p)
    /\ vpc' = "verified"
    /\ UNCHANGED <<vtree, vbatch>>
    /\ UNCHANGED <<mvars, svars, fvars, ivars, cvars, tvars, hvars, evars>>

\* verify_proofs_batch(&tree, &proofs)
ProofVerifyBatch ==
    /\ vpc = "built"
    /\ \E ps \in {<<>>} \cup {<<GenerateProof(vtree, 0), p>> : p \in CallerProofs(vtree)} :
          /\ vproofs' = ps
          /\ \E order \in Schedules(Len(ps)) :
                vbatch' = VerifyProofsBatch(vtree, ps, order)
    /\ vpc' = "batched"
    /\ UNCHANGED <<vtree, vsingle>>
    /\ UNCHANGED <<mvars, svars, fvars, ivars, cvars, tvars, hvars, evars>>

ProofNext ==
    \/ ProofVerify
    \/ ProofVerifyBatch

-----------------------------------------------------------------------------
(* hash_engine.rs: the streaming interface *)

\* HashEngine::hash
EngineHash(alg, data) == Hash(alg, data)

\* HashEngine::stream_hash: the library hasher for Sha256, Sha512 and Blake3,
\* the buffering hasher for the others.  A library hasher's state is the input
\* it has absorbed: its digest is that of the one-shot function on that input.
StreamHash(alg) ==
    IF alg \in {"Sha256", "Sha512", "Blake3"}
    THEN [kind |-> "library", algorithm |-> alg, absorbed |-> <<>>]
    ELSE [kind |-> "generic", algorithm |-> alg, buffer |-> <<>>]

\* StreamHasher::update
StreamUpdate(h, data) ==
    IF h.kind = "library"
    THEN [h EXCEPT !.absorbed = @ \o data]
    ELSE [h EXCEPT !.buffer = @ \o data]

\* StreamHasher::finalize
StreamFinalize(h) ==
    IF h.kind = "library"
    THEN Hash(h.algorithm, h.absorbed)
    ELSE EngineHash(h.algorithm, h.buffer)

StreamResetKeeps(h) == h

\* StreamHasher::reset
StreamReset(h) ==
    IF h.kind = "library"
    THEN [h EXCEPT !.absorbed = <<>>]
    ELSE [h EXCEPT !.buffer = <<>>]

\* the slices passed to update: empty, one byte, two bytes
StreamChunks == UNION {[1..n -> {Byte(0), Byte(1)}] : n \in 0..2}

StreamIdle ==
    /\ hpc = "idle"
    /\ hasher = StreamHash("Blake3")
    /\ fed = <<>>
    /\ digest = <<>>
    /\ hops = 0

\* HashEngine::new(algorithm).stream_hash()
StreamInit ==
    /\ hpc = "open"
    /\ hasher \in {StreamHash(alg) : alg \in HashAlgorithm}
    /\ fed = <<>>
    /\ digest = <<>>
    /\ hops = 0

\* hasher.update(data)
HasherUpdate ==
    /\ hpc = "open"
    /\ hops < MaxStreamOps
    /\ \E data \in StreamChunks :
          /\ hasher' = StreamUpdate(hasher, data)
          /\ fed' = fed \o data
    /\ hops' = hops + 1
    /\ UNCHANGED <<hpc, digest>>
    /\ UNCHANGED <<mvars, svars, fvars, ivars, cvars, tvars, vvars, evars>>

\* hasher.reset()
HasherReset ==
    /\ hpc = "open"
    /\ hops < MaxStreamOps
    /\ hasher' = StreamReset(hasher)
    /\ fed' = <<>>
    /\ hops' = hops + 1
    /\ UNCHANGED <<hpc, digest>>
    /\ UNCHANGED <<mvars, svars, fvars, ivars, cvars, tvars, vvars, evars>>

\* hasher.finalize(), which consumes the hasher
HasherFinalize ==
    /\ hpc = "open"
    /\ digest' = StreamFinalize(hasher)
    /\ hpc' = "finalized"
    /\ UNCHANGED <<hasher, fed, hops>>
    /\ UNCHANGED <<mvars, svars, fvars, ivars, cvars, tvars, vvars, evars>>

StreamNext ==
    \/ HasherUpdate
    \/ HasherReset
    \/ HasherFinalize

-----------------------------------------------------------------------------
(* Specifications: one per component, the other components idle *)

MerkleSpecInit == MerkleInit /\ SigIdle /\ FfiInit /\ IncIdle /\ McIdle /\ TrustIdle /\ ProofIdle /\ StreamIdle /\ CallIdle

MerkleSpec == MerkleSpecInit /\ [][MerkleNext]_vars

SigSpecInit == SigInit /\ MerkleIdle /\ FfiInit /\ IncIdle /\ McIdle /\ TrustIdle /\ ProofIdle /\ StreamIdle /\ CallIdle

SigSpec == SigSpecInit /\ [][SigNext]_vars

FfiSpecInit == FfiInit /\ MerkleIdle /\ SigIdle /\ IncIdle /\ McIdle /\ TrustIdle /\ ProofIdle /\ StreamIdle /\ CallIdle

FfiSpec == FfiSpecInit /\ [][FfiNext]_vars

IncSpecInit == IncInit /\ MerkleIdle /\ SigIdle /\ FfiInit /\ McIdle /\ TrustIdle /\ ProofIdle /\ StreamIdle /\ CallIdle

IncSpec == IncSpecInit /\ [][IncNext]_vars

McSpecInit == McInit /\ MerkleIdle /\ SigIdle /\ FfiInit /\ IncIdle /\ TrustIdle /\ ProofIdle /\ StreamIdle /\ CallIdle

McSpec == McSpecInit /\ [][McNext]_vars

TrustSpecInit == TrustInit /\ MerkleIdle /\ SigIdle /\ FfiInit /\ IncIdle /\ McIdle /\ ProofIdle /\ StreamIdle /\ CallIdle

TrustSpec == TrustSpecInit /\ [][TrustNext]_vars

ProofSpecInit ==
    ProofInit /\ MerkleIdle /\ SigIdle /\ FfiInit /\ IncIdle /\ McIdle /\ TrustIdle
        /\ StreamIdle /\ CallIdle

ProofSpec == ProofSpecInit /\ [][ProofNext]_vars

StreamSpecInit ==
    StreamInit /\ MerkleIdle /\ SigIdle /\ FfiInit /\ IncIdle /\ McIdle /\ TrustIdle
        /\ ProofIdle /\ CallIdle

StreamSpec == StreamSpecInit /\ [][StreamNext]_vars

CallSpecInit ==
    CallInit /\ MerkleIdle /\ SigIdle /\ FfiInit /\ IncIdle /\ McIdle /\ TrustIdle
        /\ ProofIdle /\ StreamIdle

CallSpec == CallSpecInit /\ [][CallNext]_vars

-----------------------------------------------------------------------------
(* Claims about the Merkle tree *)

WellFormedTree(t, lvs) ==
    /\ t.levels[1] = lvs
    /\ \A i \in 1..(Len(t.levels) - 1) :
          /\ Len(t.levels[i + 1]) = (Len(t.levels[i]) + 1) \div 2
          /\ \A k \in 1..Len(t.levels[i + 1]) :
                t.levels[i + 1][k] =
                    Hash(t.algorithm,
                         t.levels[i][2 * k - 1] \o
                         (IF 2 * k <= Len(t.levels[i])
                          THEN t.levels[i][2 * k]
                          ELSE t.levels[i][2 * k - 1]))
    /\ Len(t.levels[Len(t.levels)]) = 1
    /\ t.root = t.levels[Len(t.levels)][1]

\* C2: every tree returned by new or new_parallel has level 0 = the input
\* leaves in order, levels[i+1][k] = H(levels[i][2k] || levels[i][2k+1]) with
\* the last node of an odd level paired with itself, a one-element last level,
\* and root = that element.
C2_TreeWellFormed ==
    /\ tree.ok => (tree.algorithm = algorithm /\ WellFormedTree(tree, leaves))
    /\ ptree.ok => (ptree.algorithm = algorithm /\ WellFormedTree(ptree, leaves))

C2_Witness ==
    /\ mpc = "built"
    /\ Len(leaves) = 5
    /\ tree.ok /\ ptree.ok
    /\ Len(tree.levels) = 4
    /\ Len(tree.levels[2]) = 3

\* the least k with 2^k >= n
CeilLog2(n) == CHOOSE k \in 0..n : 2 ^ k >= n /\ (k = 0 \/ 2 ^ (k - 1) < n)

\* C3: for a tree of n >= 1 leaves every generated proof has
\* len(siblings) = len(directions) = depth() - 1 = ceil(log2(n)).
C3_ProofLength ==
    (mpc \in {"proved", "verified"} /\ proof.ok) =>
        /\ Len(proof.siblings) = Len(proof.directions)
        /\ Len(proof.siblings) = Depth(tree) - 1
        /\ Len(proof.siblings) = CeilLog2(Len(leaves))

\* the eight-leaf tree: depth 4, three pairs
C3_Witness ==
    /\ mpc = "proved"
    /\ proof.ok
    /\ Len(leaves) = 8
    /\ Depth(tree) = 4
    /\ Len(proof.siblings) = 3

C5_ReplacedLeafChangesRoot ==
    (/\ mpc = "rebuilt"
     /\ \A i \in 1..Len(leaves) : Len(leaves2[i]) = Len(leaves[i])) =>
        /\ tree2.ok
        /\ tree2.root # tree.root

\* the last leaf of a five-leaf list, duplicated at level 0, replaced
C5_Witness ==
    /\ mpc = "rebuilt"
    /\ Len(leaves) = 5
    /\ leaves2[5] # leaves[5]
    /\ Len(leaves2[5]) = Len(leaves[5])
    /\ tree2.root # tree.root

\* C27: with a collision-free hash, MerkleTree::new gives different leaf lists
\* different roots; in particular [a, b, c] and [a, b, c, c], and ["ab", "c"]
\* and ["a", "bc"], have different roots.
C27_DifferentListsDifferentRoots ==
    (mpc = "compared" /\ leaves2 # leaves /\ tree.ok /\ tree2.ok)
        => tree2.root # tree.root

\* [a, b, c] and [a, b, c, c] have the same root
MerkleRepeatedLastSameRoot ==
    /\ mpc = "compared"
    /\ Len(leaves) = 3 /\ leaves2 = Append(leaves, leaves[3])
    /\ leaves[1] # leaves[2]
    /\ tree2.root = tree.root

\* ["ab", "c"] and ["a", "bc"] have the same root
MerkleRegroupedSameRoot ==
    /\ mpc = "compared"
    /\ Len(leaves) = 2 /\ Len(leaves2) = 2
    /\ Len(leaves[1]) = 2 /\ Len(leaves[2]) = 1
    /\ Len(leaves2[1]) = 1 /\ Len(leaves2[2]) = 2
    /\ tree2.root = tree.root

-----------------------------------------------------------------------------
(* Claims about the signature verifier *)

\* the result of verifying request i of the batch on its own
RealResult(i) == VerifySignature(batch.requests[i])

\* the requests of the batch that do not verify
Failing == {i \in 1..Len(batch.requests) : ~RealResult(i).valid}

\* the index of the first request of the batch that does not verify, 0 if none
FirstFailing ==
    IF Failing = {} THEN 0 ELSE CHOOSE i \in Failing : \A j \in Failing : i <= j

\* C6: with fail_fast = true, on the sequential and on the chunked path,
\* verify_batch returns len(requests) entries: the real results up to and
\* including the first invalid one, and the skipped marker after it.
C6_FailFastFillsSkipped ==
    (spc = "done" /\ batch.fail_fast) =>
        /\ Len(results) = Len(batch.requests)
        /\ LET k == FirstFailing
           IN \A i \in 1..Len(batch.requests) :
                 results[i] = IF k = 0 \/ i <= k THEN RealResult(i)
                              ELSE SkippedResult

\* a batch of 201 on the chunked path whose first failure is the first request
\* of the second chunk
C6_Witness ==
    /\ spc = "done"
    /\ batch.fail_fast
    /\ BatchPath(batch) = "chunks"
    /\ Len(batch.requests) = 2 * ChunkSize + 1
    /\ Len(results) = 2 * ChunkSize + 1
    /\ results[ChunkSize].valid
    /\ ~results[ChunkSize + 1].valid
    /\ results[ChunkSize + 1].error = "InvalidInput"
    /\ results[ChunkSize + 2] = SkippedResult
    /\ results[2 * ChunkSize + 1] = SkippedResult

\* C7: with fail_fast = false, for every parallel_threshold, verify_batch
\* returns len(requests) entries and entry i is the result of request i,
\* whatever the order the parallel workers finish in.
C7_BatchKeepsOrder ==
    (spc = "done" /\ ~batch.fail_fast) =>
        /\ Len(results) = Len(batch.requests)
        /\ \A i \in 1..Len(batch.requests) :
              /\ results[i].valid = RealResult(i).valid
              /\ results[i].algorithm = batch.requests[i].algorithm
              /\ results[i] = RealResult(i)

\* a parallel batch of three whose second request alone is invalid
C7_Witness ==
    /\ spc = "done"
    /\ ~batch.fail_fast
    /\ BatchPath(batch) = "parallel"
    /\ Len(batch.requests) = 3
    /\ results[1].valid /\ ~results[2].valid /\ results[3].valid
    /\ results[2].algorithm = "EcdsaP256"

\* the request verify_aggregated_signature verifies for pair i
PairRequest(i) ==
    [message |-> aggregated.message, signature |-> aggregated.signatures[i],
     public_key |-> aggregated.public_keys[i], algorithm |-> aggAlgorithm,
     polygon_tx_hash |-> "None"]

\* the pairs that verify against the shared message
ValidPairs ==
    {i \in 1..Len(aggregated.signatures) : VerifySignature(PairRequest(i)).valid}

\* C8: when signatures and public_keys have the same length, every pair is
\* verified (no early stop), valid_signatures is the number of pairs that
\* verify, total_signatures the number of pairs, and
\* valid = threshold_met = (valid_signatures >= threshold).
C8_AggregatedCountsAll ==
    (/\ spc = "aggregated_done"
     /\ Len(aggregated.signatures) = Len(aggregated.public_keys)) =>
        /\ Len(aggResult.individual_results) = Len(aggregated.signatures)
        /\ \A i \in 1..Len(aggregated.signatures) :
              aggResult.individual_results[i] = VerifySignature(PairRequest(i))
        /\ aggResult.valid_signatures = Cardinality(ValidPairs)
        /\ aggResult.total_signatures = Len(aggregated.signatures)
        /\ aggResult.threshold_met =
              (Cardinality(ValidPairs) >= aggregated.threshold)
        /\ aggResult.valid = aggResult.threshold_met

\* eleven signers (the parallel path), the first invalid, two invalid in all,
\* and a threshold equal to the nine that verify
C8_Witness ==
    /\ spc = "aggregated_done"
    /\ Len(aggregated.signatures) = AggregatedParallelThreshold + 1
    /\ Len(aggregated.public_keys) = AggregatedParallelThreshold + 1
    /\ ~aggResult.individual_results[1].valid
    /\ aggResult.valid_signatures = AggregatedParallelThreshold - 1
    /\ aggregated.threshold = AggregatedParallelThreshold - 1
    /\ aggResult.valid

MalformedEd25519(request) ==
    /\ request.algorithm = "Ed25519"
    /\ \/ request.public_key.len # PUBLIC_KEY_LENGTH
       \/ request.signature.len # SIGNATURE_LENGTH

\* C21: an Ed25519 request whose public key is not 32 bytes or whose signature
\* is not 64 bytes fails the length check with InvalidInput, not with the
\* failure of the decoding or of the verify primitive, and its result has
\* valid = false and the error set; every result with the error set has
\* valid = false.
C21_MalformedLengthsRejected ==
    spc = "done" =>
        \A i \in 1..Len(results) :
            /\ (MalformedEd25519(batch.requests[i]) /\ results[i] # SkippedResult)
                  => /\ ~results[i].valid
                     /\ results[i].error = "InvalidInput"
            /\ results[i].error # "None" => ~results[i].valid

\* a batch without fail-fast whose first request is an Ed25519 request with a
\* signature of 63 bytes and whose request 101 has the same defect
C21_Witness ==
    /\ spc = "done"
    /\ ~batch.fail_fast
    /\ Len(results) > ChunkSize
    /\ batch.requests[1].signature.len = SIGNATURE_LENGTH - 1
    /\ batch.requests[1].public_key.len = PUBLIC_KEY_LENGTH
    /\ MalformedEd25519(batch.requests[ChunkSize + 1])
    /\ results[1].error = "InvalidInput"
    /\ results[ChunkSize + 1].error = "InvalidInput"
    /\ results[2].valid

\* an Ed25519 public key of 31 bytes rejected the same way
SigShortKeyRejectedReached ==
      /\ spc = "done"
      /\ Len(results) >= 1
      /\ batch.requests[1].public_key.len = PUBLIC_KEY_LENGTH - 1
      /\ results[1].error = "InvalidInput" /\ ~results[1].valid

\* C25: for every request list and both values of fail_fast, the parallel and
\* the chunked path of verify_batch give each index the valid flag, and the
\* skipped marker, that the sequential path gives it: parallel_threshold does
\* not show in the outcome.
C25_PathNotObservable ==
    (spc = "done" /\ BatchPath(batch) # "sequential") =>
        LET seq == VerifyBatchSequential(batch)
        IN /\ Len(results) = Len(seq)
           /\ \A i \in 1..Len(seq) :
                 /\ results[i].valid = seq[i].valid
                 /\ (results[i] = SkippedResult) = (seq[i] = SkippedResult)

\* a chunked batch of 201 whose second request fails: the 98 requests after it
\* in the first chunk were verified by the workers and are reported as skipped
C25_Witness ==
    /\ spc = "done"
    /\ batch.fail_fast
    /\ BatchPath(batch) = "chunks"
    /\ Len(batch.requests) = 2 * ChunkSize + 1
    /\ results[1].valid
    /\ ~results[2].valid /\ results[2] # SkippedResult
    /\ results[3] = SkippedResult
    /\ results[2 * ChunkSize + 1] = SkippedResult


-----------------------------------------------------------------------------
(* Claims about the FFI result lifecycle (FfiSpec) *)

\* the allocations made for the result envelope r
AllocationsOf(r) ==
    {r.ptr} \cup (IF r.fields.data # NULL THEN {r.fields.data} ELSE {})
            \cup (IF r.fields.error_message # NULL
                  THEN {r.fields.error_message} ELSE {})

ReleasedExactlyOnce(r) ==
    \A a \in AllocationsOf(r) : heap[a].state = "freed" /\ heap[a].releases = 1

\* C9: when the caller passes each returned result to velocity_crypto_free_result
\* exactly once, every allocation made for a result (the envelope, its data
\* buffer when non-null, its error-message buffer when non-null) is released
\* exactly once: none stays allocated after its free call, none is released
\* twice.
C9_ReleasedExactlyOnce ==
    /\ \A a \in 1..Len(heap) : heap[a].releases <= 1
    /\ \A i \in 1..Len(envelopes) :
          envelopes[i].ptr \in released => ReleasedExactlyOnce(envelopes[i])

\* The same holds of every result whose payload is shorter than 2^32 bytes.
FfiReleasedExactlyOnceBelow4GiB ==
    \A i \in 1..Len(envelopes) :
        (envelopes[i].ptr \in released /\ WLess(envelopes[i].payload, TwoTo32))
            => ReleasedExactlyOnce(envelopes[i])

\* A freed result whose payload was 2^32 bytes or more
FfiLargePayloadFreed ==
    \E i \in 1..Len(envelopes) :
        envelopes[i].ptr \in released /\ ~WLess(envelopes[i].payload, TwoTo32)

SuccessShape(r) ==
    /\ r.fields.error_code = "Success"
    /\ r.fields.error_message = NULL
    /\ IF r.payload = W(0)
       THEN r.fields.data = NULL /\ r.fields.data_len = W(0)
       ELSE r.fields.data # NULL

FailureShape(r) ==
    /\ r.fields.error_code # "Success"
    /\ r.fields.data = NULL
    /\ r.fields.data_len = W(0)
    /\ r.fields.error_message # NULL

\* C10: every result envelope returned by an entry point is either a success
\* (error_code Success, error_message null, data non-null unless the payload is
\* empty, and then data null with data_len 0) or a failure (error_code not
\* Success, data null, data_len 0, error_message non-null).
C10_EnvelopeShapes ==
    \A i \in 1..Len(envelopes) :
        SuccessShape(envelopes[i]) \/ FailureShape(envelopes[i])

C10_Witness ==
    /\ \E i \in 1..Len(envelopes) :
          envelopes[i].fields.error_code = "Success" /\ envelopes[i].payload # W(0)
    /\ \E i \in 1..Len(envelopes) : envelopes[i].fields.error_code # "Success"


-----------------------------------------------------------------------------
(* Claims about one entry-point call (CallSpec) *)

\* the offset at which record n of the caller's buffer ends
RECURSIVE RecordEnd(_, _)
RecordEnd(declared, n) ==
    IF n = 0 THEN W(0)
    ELSE WAdd(RecordEnd(declared, n - 1), WAdd(W(4), declared[n]))

\* the first n records are all there within the buffer's length
RecordsComplete(buf, n) ==
    /\ n <= Len(buf.declared)
    /\ ~WLess(buf.total, RecordEnd(buf.declared, n))

\* the leaves the caller wrote into the first n records
WrittenLeaves(buf, n) ==
    [k \in 1..n |->
        IF buf.declared[k] = W(0) THEN <<>>
        ELSE <<[len |-> buf.declared[k], byte |-> Fills[k]]>>]

DecodesOrRefuses ==
    LET buf == lastcall.buf
        n == lastcall.leaf_count
    IN /\ IF buf.null \/ n = 0 \/ ~RecordsComplete(buf, n)
          THEN lastcall.result.error_code = "InvalidInput"
          ELSE /\ lastcall.result.error_code = "Success"
               /\ lastcall.leaves = WrittenLeaves(buf, n)
       /\ ~WLess(buf.total, lastcall.read_end)

\* C24: velocity_crypto_merkle_tree_create decodes exactly leaf_count leaves,
\* each a 4-byte little-endian length followed by that many bytes, in order; it
\* returns an InvalidInput result whenever the buffer ends before a length
\* prefix or before the declared bytes are complete, when leaf_count is 0 and
\* when the pointer is null; it reads no byte at or beyond leaves_data_len.
C24_DecodesLeavesOrRefuses ==
    lastcall.entry = "merkle_tree_create" => DecodesOrRefuses

\* The same holds on a target whose usize has 64 bits.
CallDecodesOn64Bit ==
    (lastcall.entry = "merkle_tree_create" /\ usize_bits = 64) => DecodesOrRefuses

\* two leaves, the first of them empty, decoded in order up to the buffer's end
CallTwoLeavesDecoded ==
    /\ lastcall.entry = "merkle_tree_create"
    /\ lastcall.result.error_code = "Success"
    /\ lastcall.leaf_count = 2
    /\ lastcall.leaves = WrittenLeaves(lastcall.buf, 2)
    /\ lastcall.leaves[1] = <<>>
    /\ lastcall.read_end = lastcall.buf.total

\* a record declaring more bytes than follow it, refused on a 64-bit target
CallShortRecordRefused ==
    /\ lastcall.entry = "merkle_tree_create"
    /\ usize_bits = 64
    /\ lastcall.buf.declared = <<MaxU32>>
    /\ lastcall.leaf_count = 1
    /\ lastcall.result.error_code = "InvalidInput"

\* the same call on a 32-bit target: the call panics and returns nothing
CallShortRecordPanics ==
    /\ lastcall.entry = "merkle_tree_create"
    /\ usize_bits = 32
    /\ lastcall.buf.declared = <<MaxU32>>
    /\ lastcall.leaf_count = 1
    /\ lastcall.result.error_code = "none"

\* a panic happens only there: 32-bit usize and a declared length that takes
\* the offset past 2^32
CallPanicsOnlyOnWrap ==
    (lastcall.entry # "none" /\ lastcall.result.error_code = "none")
        => /\ lastcall.entry = "merkle_tree_create"
           /\ usize_bits = 32
           /\ \E k \in 1..Len(lastcall.buf.declared) :
                 ~WLess(RecordEnd(lastcall.buf.declared, k), TwoTo32)

\* C29: the entry points agree on the hash algorithm codes: for a code that
\* velocity_crypto_hash accepts (0 to 4), velocity_crypto_merkle_tree_create
\* builds the tree with the same algorithm; for a code velocity_crypto_hash
\* rejects, velocity_crypto_merkle_tree_create returns InvalidInput too.
C29_EntryPointsAgreeOnCodes ==
    (/\ lastcall.entry = "merkle_tree_create"
     /\ ~lastcall.buf.null /\ lastcall.leaf_count > 0)
        => IF HashAlgorithmOfCode(lastcall.code).ok
           THEN lastcall.algorithm = HashAlgorithmOfCode(lastcall.code).value
           ELSE lastcall.result.error_code = "InvalidInput"

\* velocity_crypto_hash itself uses the algorithm of codes 0 to 4 and refuses
\* every other code.
CallHashCodes ==
    (lastcall.entry = "hash" /\ lastcall.data # "null")
        => IF lastcall.code \in 0..4
           THEN /\ lastcall.result.error_code = "Success"
                /\ lastcall.algorithm = HashAlgorithmOfCode(lastcall.code).value
           ELSE lastcall.result.error_code = "InvalidInput"

\* The tree is built with the algorithm of the code for codes 0, 1 and 4, and
\* with Blake3 for every other code.
CallCreateCodes ==
    (/\ lastcall.entry = "merkle_tree_create"
     /\ ~lastcall.buf.null /\ lastcall.leaf_count > 0)
        => lastcall.algorithm =
              (IF lastcall.code \in {0, 1, 4}
               THEN HashAlgorithmOfCode(lastcall.code).value
               ELSE "Blake3")

\* a tree built with Blake3 under code 2, which velocity_crypto_hash reads as
\* Sha3_256
CallCode2BuildsBlake3 ==
    /\ lastcall.entry = "merkle_tree_create"
    /\ lastcall.code = 2
    /\ lastcall.result.error_code = "Success"
    /\ lastcall.algorithm = "Blake3"

\* a tree built under code 5, which velocity_crypto_hash refuses
CallCode5Builds ==
    /\ lastcall.entry = "merkle_tree_create"
    /\ lastcall.code = 5
    /\ lastcall.result.error_code = "Success"

-----------------------------------------------------------------------------
(* Claims about the incremental Merkle tree (IncSpec) *)

\* C11: the cached tree, when present, is the tree of the current leaf buffer;
\* a successful root() returns the root of the tree built from all leaves
\* appended so far, in append order, and a successful generate_proof(i) is the
\* proof of leaf i against that same tree.
C11_CacheIsCurrent ==
    /\ itree.ok => itree = New(ileaves, ialgorithm)
    /\ (ilast.op = "root" /\ ilast.result.ok)
          => ilast.result.value = New(ileaves, ialgorithm).root
    /\ (ilast.op = "generate_proof" /\ ilast.result.ok)
          => ilast.result = GenerateProof(New(ileaves, ialgorithm), ilast.k)

\* a root served after leaves were appended to a tree that had been built
C11_Witness ==
    /\ ilast.op = "root"
    /\ ilast.result.ok
    /\ Len(ileaves) >= 2
    /\ iops >= 4
    /\ ilast.result.value # New(SubSeq(ileaves, 1, 1), ialgorithm).root

\* C12: leaf_count() never exceeds the capacity; add_leaf fails with
\* InvalidInput exactly when leaf_count() equals the capacity before the call,
\* add_leaves(k leaves) exactly when leaf_count() + k exceeds it.
C12_CapacityRespected ==
    /\ Len(ileaves) <= icapacity
    /\ ilast.op = "add_leaf"
          => /\ ~ilast.result.ok <=> ilast.before = icapacity
             /\ ~ilast.result.ok => ilast.result.err = "InvalidInput"
             /\ ilast.result.ok => Len(ileaves) = ilast.before + 1
    /\ ilast.op = "add_leaves"
          => /\ ~ilast.result.ok <=> ilast.before + ilast.k > icapacity
             /\ ~ilast.result.ok => ilast.result.err = "InvalidInput"
             /\ ilast.result.ok => Len(ileaves) = ilast.before + ilast.k

\* an append refused on a full tree that holds leaves
C12_Witness ==
    /\ ilast.op \in {"add_leaf", "add_leaves"}
    /\ ~ilast.result.ok
    /\ Len(ileaves) = icapacity
    /\ icapacity > 0

\* C22: generate_proof(i) fails with InvalidInput exactly when i >= leaf_count()
\* and succeeds for every smaller i; root() and generate_proof on an incremental
\* tree with no leaf fail with InvalidInput.
C22_ProofIndexChecked ==
    /\ (ilast.op = "generate_proof" /\ ileaves # <<>>)
          => /\ ilast.result.ok <=> ilast.k < Len(ileaves)
             /\ ~ilast.result.ok => ilast.result.err = "InvalidInput"
             /\ ilast.result.ok => /\ ilast.result.leaf = ileaves[ilast.k + 1]
                                   /\ ilast.result.leaf_index = ilast.k
    /\ (ilast.op \in {"root", "generate_proof", "build"} /\ ileaves = <<>>)
          => ilast.result = Err("InvalidInput")

\* a proof asked for the first index past the last leaf, and refused
C22_Witness ==
    /\ ilast.op = "generate_proof"
    /\ ilast.k = Len(ileaves)
    /\ Len(ileaves) >= 2
    /\ ilast.result = Err("InvalidInput")

\* root() on a tree with room for leaves but none appended, refused
IncEmptyRootRefusedReached ==
      ilast.op = "root" /\ ileaves = <<>> /\ icapacity > 0
        /\ ilast.result = Err("InvalidInput")

RootNow(t, lvs, alg) == IncEnsureBuilt(t, lvs, alg, "identity")

\* C28: an add_leaf or add_leaves that fails with InvalidInput leaves the leaf
\* buffer, leaf_count() and the cached tree unchanged; add_leaves appends no
\* leaf of a list that does not fit; root() answers after it as before it.
C28_FailedAppendChangesNothing ==
    [][(ilast'.op \in {"add_leaf", "add_leaves"}
          /\ (~ilast'.result.ok \/ Len(ileaves) + ilast'.k > icapacity))
         => /\ ilast'.result = Err("InvalidInput")
            /\ ileaves' = ileaves
            /\ itree' = itree
            /\ RootNow(itree', ileaves', ialgorithm) = RootNow(itree, ileaves, ialgorithm)]_vars

\* a list of two refused by a built tree with room for one more leaf
C28_Witness ==
    /\ ilast.op = "add_leaves"
    /\ ~ilast.result.ok
    /\ ilast.k = 2
    /\ Len(ileaves) = icapacity - 1
    /\ Len(ileaves) > 0
    /\ itree.ok


-----------------------------------------------------------------------------
(* Claims about the Monte Carlo engine (McSpec) *)

\* C13: for a fixed scenario, seed, iteration count and parallel threshold, two
\* runs of simulate_compliance_risk produce the same ordered list of trial
\* results and the same aggregate statistics, and on the parallel path trial i
\* is the trial drawn from a generator seeded with seed + i (wrapping), whatever
\* the order in which the workers finish.
C13_SeededRunsAgree ==
    config.seed.some =>
        /\ Len(runs) = 2 => runs[1].run = runs[2].run
        /\ \A r \in 1..Len(runs) :
              (runs[r].path = "parallel" /\ runs[r].run.outcome.status = "ok") =>
                  \A i \in 1..config.iterations :
                      runs[r].run.trials[i] =
                          ParallelTrial(config, scenario, config.seed.value, i - 1).value

\* two successful parallel runs whose workers finished in different orders, from
\* a seed at which seed + i wraps
C13_Witness ==
    /\ config.seed = SomeSeed(U64Max)
    /\ Len(runs) = 2
    /\ runs[1].path = "parallel"
    /\ runs[1].order # runs[2].order
    /\ runs[1].run.outcome.status = "ok"
    /\ Len(runs[1].run.trials) >= 2

\* C18: simulate_compliance_risk returns Ok or Err and never panics, for every
\* scenario and configuration.
C18_NeverPanics ==
    \A r \in 1..Len(runs) : runs[r].run.outcome.status \in {"ok", "err"}

\* Scenarios whose rates, enforcement products and Uniform bounds are in range
\* do not panic.
McInRangeNeverPanics ==
    \A r \in 1..Len(runs) :
        runs[r].run.outcome.status = "panic" => scenario # BaseScenario


-----------------------------------------------------------------------------
(* Claims about trust_calculator.rs, under TrustSpec *)

Scored == tpc # "start" /\ tpc # "idle"

InUnitRange(acts) ==
    \A k \in 1..Len(acts) :
        /\ acts[k].confidence \in 0..Scale
        /\ acts[k].verifier_reputation \in 0..Scale
        /\ acts[k].value \in 0..Scale

NoneLater(acts) == \A k \in 1..Len(acts) : acts[k].timestamp <= now

\* C14: raising one activity's confidence or verifier_reputation, or adding its
\* polygon_tx_hash, with everything else and the clock held fixed, never lowers
\* the score calculate_trust_score returns.
C14_ImprovementNeverLowersScore ==
    (/\ tpc = "improved"
     /\ InUnitRange(activities) /\ NoneLater(activities)
     /\ tresult.status = "ok" /\ tresult2.status = "ok")
        => tresult2.value.score >= tresult.value.score

\* The improved activity's own final weight never falls: the score falls because
\* it is the weighted mean of the values and the heavier activity has a low value.
TrustImprovementRaisesWeight ==
    (tpc = "improved" /\ InUnitRange(activities) /\ NoneLater(activities))
        => \A k \in 1..Len(activities) :
              SequentialTerm(tconfig, activities2[k], now, FALSE).weight
                  >= SequentialTerm(tconfig, activities[k], now, FALSE).weight

\* One perfect and one worthless compliance verification, both of reputation 0.2,
\* the worthless one of confidence 0.5: raising that confidence to 0.9 takes the
\* score from 82 to 50.
C14_WorthlessActivityGainsWeight ==
    ~(/\ tpc = "improved"
      /\ activities = <<Activity("ComplianceVerification", Today, Scale, 90, 20, FALSE),
                        Activity("ComplianceVerification", Today, 0, 50, 20, FALSE)>>
      /\ activities2 = [activities EXCEPT ![2].confidence = 90]
      /\ tresult.value.score = 82 * Scale
      /\ tresult2.value.score = 50 * Scale)

ConfidenceInUnitRange(acts) ==
    \A k \in 1..Len(acts) :
        /\ acts[k].confidence \in 0..Scale
        /\ acts[k].verifier_reputation \in 0..Scale

ContributionSum(acts) ==
    SumOf([k \in 1..Len(acts) |->
              SequentialTerm(tconfig, acts[k], now, FALSE).contribution], 1)

FinalWeightSum(acts) ==
    SumOf([k \in 1..Len(acts) |->
              SequentialTerm(tconfig, acts[k], now, FALSE).weight], 1)

\* C15: with every confidence and verifier_reputation in [0,1], whatever the
\* values and types, calculate_trust_score returns on either path a score in
\* [0,100] and a confidence in [0,1]; the score is 100 * clamp(sum of
\* contributions / sum of final weights, 0, 1), and 0 when the sum of final
\* weights is not positive.
C15_ScoreAndConfidenceInRange ==
    (Scored /\ tresult.status = "ok" /\ ConfidenceInUnitRange(activities))
        => /\ tresult.value.score \in 0..(100 * Scale)
           /\ tresult.value.confidence \in 0..Scale
           /\ tresult.value.score =
                 IF FinalWeightSum(activities) > 0
                 THEN 100 * FClamp01(FDiv(ContributionSum(activities),
                                          FinalWeightSum(activities)))
                 ELSE 0

\* the parallel path has scored a list whose mean value exceeds 1 and was clamped
C15_Witness ==
    /\ Scored /\ tresult.status = "ok" /\ ConfidenceInUnitRange(activities)
    /\ Len(activities) > tconfig.parallel_threshold
    /\ FinalWeightSum(activities) > 0
    /\ FDiv(ContributionSum(activities), FinalWeightSum(activities)) > Scale
    /\ tresult.value.score = 100 * Scale

\* the sequential path has scored a list to a score strictly inside the range
TrustSequentialInRangeReached ==
      /\ Scored /\ tresult.status = "ok" /\ ConfidenceInUnitRange(activities)
      /\ Len(activities) = MaxActivities
      /\ Len(activities) <= tconfig.parallel_threshold
      /\ tresult.value.score \in 1..(100 * Scale - 1)

\* C16: for the same list, configuration and clock, the parallel path returns the
\* score, total_activities, polygon_verified_activities and activity_breakdown
\* of the sequential path, whatever the order in which the workers finish.
C16_ParallelEqualsSequential ==
    (Scored /\ Len(activities) > tconfig.parallel_threshold)
        => LET seq == CalculateSequential(tconfig, activities, now, overflow_checks)
           IN /\ tresult.status = seq.status
              /\ tresult.status = "ok" =>
                    /\ tresult.value.score = seq.value.score
                    /\ tresult.value.total_activities = seq.value.total_activities
                    /\ tresult.value.polygon_verified_activities
                           = seq.value.polygon_verified_activities
                    /\ tresult.value.activity_breakdown = seq.value.activity_breakdown

\* the parallel path has scored two different activities, one of them below the
\* confidence threshold, to a positive score
C16_Witness ==
    /\ Scored /\ tresult.status = "ok"
    /\ Len(activities) > tconfig.parallel_threshold
    /\ Len(activities) >= 2
    /\ activities[1] # activities[2]
    /\ \E k \in 1..Len(activities) :
          activities[k].confidence < tconfig.confidence_threshold
    /\ tresult.value.score > 0
    /\ tresult.value.polygon_verified_activities > 0

\* N of update_trust_score: the score of the new activities
NewScore == CalculateSequential(tconfig, activities2, now, overflow_checks).value

MaxOf(a, b) == IF a > b THEN a ELSE b

TrustUpdateStrictlyBetweenReached ==
      /\ tpc = "updated" /\ tresult2.status = "ok"
      /\ NewScore.score > current.score
      /\ tresult2.value.score > current.score
      /\ tresult2.value.score < NewScore.score

\* C20: for every timestamp, one later than the clock included,
\* calculate_trust_score returns a tagged outcome with a score in [0,100]: it
\* neither panics nor wraps the subtraction current_time - timestamp.
C20_NeverPanicsOrWraps ==
    Scored => /\ tresult.status = "ok"
              /\ ~tresult.wrapped
              /\ tresult.value.score \in 0..(100 * Scale)

\* With no timestamp later than the clock the call neither panics nor wraps.
TrustPastTimestampsSafe ==
    (Scored /\ NoneLater(activities))
        => /\ tresult.status = "ok"
           /\ ~tresult.wrapped
           /\ tresult.value.score \in 0..(100 * Scale)

\* A later timestamp panics exactly in the build that checks overflow; the
\* build that wraps gives the activity no weight.
TrustLaterTimestampOutcome ==
    (Scored /\ ~NoneLater(activities))
        => IF overflow_checks THEN tresult.status = "panic"
           ELSE /\ tresult.status = "ok" /\ tresult.wrapped
                /\ \A k \in 1..Len(activities) :
                      activities[k].timestamp > now
                          => SequentialTerm(tconfig, activities[k], now, FALSE).weight = 0

\* C30: update_trust_score with no new activity returns the current score,
\* confidence and total_activities unchanged.
C30_EmptyUpdateKeepsScore ==
    (tpc = "updated" /\ activities2 = <<>> /\ tresult2.status = "ok")
        => /\ tresult2.value.score = current.score
           /\ tresult2.value.confidence = current.confidence
           /\ tresult2.value.total_activities = current.total_activities

\* With no new activity the score and the confidence are scaled by 0.9: the
\* current ones are blended with those of TrustScore::default().
TrustEmptyUpdateDecays ==
    (tpc = "updated" /\ activities2 = <<>>)
        => /\ tresult2.status = "ok"
           /\ tresult2.value.score = FMul(current.score, 90)
           /\ tresult2.value.confidence = FMul(current.confidence, 90)
           /\ tresult2.value.total_activities = current.total_activities
           /\ tresult2.value.calculation_timestamp = 0

-----------------------------------------------------------------------------
(* Claims about proofs built by the caller, under ProofSpec *)

\* C19: verify_proof and verify_proofs_batch return a boolean outcome and never
\* panic, whatever MerkleProof the caller built: siblings longer than
\* directions, lists longer or shorter than depth() - 1, leaf_index out of range.
C19_VerifyNeverPanics ==
    /\ vpc = "verified" => vsingle.ok
    /\ vpc = "batched" => vbatch.ok

\* The call panics exactly when some proof has more siblings than directions.
ProofPanicsOnShortDirections ==
    LET short == \E k \in 1..Len(vproofs) :
                     Len(vproofs[k].siblings) > Len(vproofs[k].directions)
    IN /\ vpc = "verified" => (vsingle.ok <=> ~short)
       /\ vpc = "verified" /\ ~vsingle.ok => vsingle.err = "panic"
       /\ vpc = "batched" => (vbatch.ok <=> ~short)

\* A proof as generated verifies, whatever its leaf_index field says.
ProofGeneratedVerifies ==
    (vpc = "verified"
       /\ \E i \in 0..(LeafCount(vtree) - 1) :
             [vproofs[1] EXCEPT !.leaf_index = i] = GenerateProof(vtree, i))
        => vsingle.ok /\ vsingle.value

\* C26: with a collision-free hash, verify_proof(p) is true only if p.leaf is
\* the level-0 leaf at p.leaf_index: an interior node presented as a leaf with
\* a shortened sibling list, or a correct path under another leaf_index, is
\* rejected.
C26_VerifiedLeafIsAtIndex ==
    (vpc = "verified" /\ vsingle.ok /\ vsingle.value)
        => /\ vproofs[1].leaf_index < LeafCount(vtree)
           /\ vproofs[1].leaf = vtree.levels[1][vproofs[1].leaf_index + 1]

\* An interior node with the rest of its path is accepted as a leaf.
ProofInteriorNodeAccepted ==
    /\ vpc = "verified" /\ vsingle.ok /\ vsingle.value
    /\ Depth(vtree) >= 3
    /\ vproofs[1].leaf \in {vtree.levels[2][k] : k \in 1..Len(vtree.levels[2])}
    /\ Len(vproofs[1].siblings) = Depth(vtree) - 2

\* A generated proof is accepted under the index of a different leaf.
ProofWrongIndexAccepted ==
    /\ vpc = "verified" /\ vsingle.ok /\ vsingle.value
    /\ vproofs[1].leaf_index < LeafCount(vtree)
    /\ vproofs[1].leaf # vtree.levels[1][vproofs[1].leaf_index + 1]

\* What verify_proof does check: the fold of the leaf over the siblings equals
\* the root; leaf_index is not read.
ProofVerdictIgnoresIndex ==
    (vpc = "verified" /\ vsingle.ok)
        => \A i \in 0..LeafCount(vtree) :
              VerifyProof(vtree, [vproofs[1] EXCEPT !.leaf_index = i]) = vsingle

-----------------------------------------------------------------------------
(* Claims about the streaming hasher, under StreamSpec *)

\* C23: for every algorithm and every sequence of update and reset calls,
\* finalize returns HashEngine::hash of the concatenation of the data passed to
\* update since the last reset (or since creation), however the data was split
\* into calls; after reset the hasher is a freshly created one.
C23_StreamEqualsOneShot ==
    /\ hpc = "finalized" => digest = EngineHash(hasher.algorithm, fed)
    /\ fed = <<>> => hasher = StreamHash(hasher.algorithm)

\* a buffering hasher finalized on three bytes fed in two calls after a reset
\* that discarded earlier data
C23_Witness ==
    /\ hpc = "finalized"
    /\ hasher.kind = "generic"
    /\ hops = MaxStreamOps
    /\ Len(fed) = 3
    /\ digest = EngineHash(hasher.algorithm, fed)

\* a library hasher finalized right after a reset that discarded data
StreamLibraryResetReached ==
      /\ hpc = "finalized" /\ hasher.kind = "library"
      /\ hops >= 2 /\ fed = <<>>
      /\ digest = EngineHash(hasher.algorithm, <<>>)

====
